---- MODULE Spec2Model ----
(***************************************************************************)
(* VSM Data Analyzer (shrhrt/VSM_ANALYSIS): the hysteresis-loop analysis   *)
(* engine (analysis/file_io.py, analysis/calculations.py) and the part of  *)
(* the application that drives it (app/graph_manager.py,                   *)
(* app/event_handlers.py, app/vsm_app.py, app/state_manager.py).           *)
(*                                                                         *)
(* Numbers.  Python floats are modelled as exact rationals <<n, d>> with   *)
(* d > 0 and gcd(n, d) = 1; None and NaN are the empty tuple.  Rounding of *)
(* IEEE arithmetic is therefore outside the model.                         *)
(***************************************************************************)
EXTENDS Integers, Sequences, FiniteSets, TLC

(***************************************************************************)
(* Bounds of the model (not program constants).                            *)
(***************************************************************************)
\* longest file of the "short" file family, in rows below the header
MaxRows == 4
\* largest slope, in kA/m per T, of the two saturation tails of the
\* "sweep" file family
MaxTail == 1
\* most files opened together in one dialog
MaxBatch == 2
\* a ramp file sweeps the field from 2 * MaxHalf down to -2 * MaxHalf and back
MaxHalf == 10
\* lines of the longest text file whose header row is searched
MaxLines == 103
\* characters of the longest line of a file whose metadata is parsed
MaxChars == 5
MaxList == 4

(***************************************************************************)
(* Rational arithmetic                                                     *)
(***************************************************************************)
NULL == <<>>

IAbs(i) == IF i < 0 THEN -i ELSE i

RECURSIVE GCD(_, _)
GCD(a, b) == IF b = 0 THEN a ELSE GCD(b, a % b)

Rat(n, d) ==
    LET g == GCD(IAbs(n), IAbs(d))
        s == IF d < 0 THEN -1 ELSE 1
    IN  <<(s * n) \div g, (s * d) \div g>>

RInt(i) == <<i, 1>>
RZero == <<0, 1>>
RAdd(a, b) == Rat(a[1] * b[2] + b[1] * a[2], a[2] * b[2])
RSub(a, b) == Rat(a[1] * b[2] - b[1] * a[2], a[2] * b[2])
RMul(a, b) == Rat(a[1] * b[1], a[2] * b[2])
RDiv(a, b) == Rat(a[1] * b[2], a[2] * b[1])
RNeg(a) == <<-a[1], a[2]>>
RAbs(a) == <<IAbs(a[1]), a[2]>>
RLt(a, b) == a[1] * b[2] < b[1] * a[2]
RLe(a, b) == a[1] * b[2] <= b[1] * a[2]
RGt(a, b) == RLt(b, a)
RGe(a, b) == RLe(b, a)

RECURSIVE RSum(_)
RSum(s) ==
    IF s = <<>> THEN RZero
    ELSE IF Len(s) = 1 THEN s[1]
    ELSE RAdd(RSum(SubSeq(s, 1, Len(s) \div 2)),
              RSum(SubSeq(s, Len(s) \div 2 + 1, Len(s))))

\* np.mean of a non-empty array
Mean(s) == RDiv(RSum(s), RInt(Len(s)))

RMaxSeq(s) == s[CHOOSE i \in 1..Len(s) : \A j \in 1..Len(s) : RLe(s[j], s[i])]

RMinSeq(s) == s[CHOOSE i \in 1..Len(s) : \A j \in 1..Len(s) : RLe(s[i], s[j])]

\* the subsequence of s at the positions i with keep[i]
RECURSIVE Pick(_, _)
Pick(s, keep) ==
    IF s = <<>> THEN <<>>
    ELSE IF Len(s) = 1 THEN (IF keep[1] THEN <<s[1]>> ELSE <<>>)
    ELSE Pick(SubSeq(s, 1, Len(s) \div 2), SubSeq(keep, 1, Len(s) \div 2))
         \o Pick(SubSeq(s, Len(s) \div 2 + 1, Len(s)),
                 SubSeq(keep, Len(s) \div 2 + 1, Len(s)))

MapSeq(s, Op(_)) == [i \in 1..Len(s) |-> Op(s[i])]

(***************************************************************************)
(* Text of the entry widgets and Python's float()                          *)
(***************************************************************************)
\* float(text): the texts the model types into an entry, with their values;
\* any other text ("" or "abc") raises ValueError
FloatTable ==
    [t \in {"0.5", "1.2", "-1.2", "-0.5", "1.5", "2.0", "-2.0", "-1.5",
            "2.5", "3.5", "-3.5", "-2.5", "0.6", "0.7", "-0.7", "-0.6",
            "1.0", "100.0", "-3.0", "3.0", "3"} |->
        CASE t = "0.5" -> <<1, 2>>    [] t = "1.2" -> <<6, 5>>
          [] t = "-1.2" -> <<-6, 5>>  [] t = "-0.5" -> <<-1, 2>>
          [] t = "1.5" -> <<3, 2>>    [] t = "2.0" -> <<2, 1>>
          [] t = "-2.0" -> <<-2, 1>>  [] t = "-1.5" -> <<-3, 2>>
          [] t = "2.5" -> <<5, 2>>    [] t = "3.5" -> <<7, 2>>
          [] t = "-3.5" -> <<-7, 2>>  [] t = "-2.5" -> <<-5, 2>>
          [] t = "0.6" -> <<3, 5>>    [] t = "0.7" -> <<7, 10>>
          [] t = "-0.7" -> <<-7, 10>> [] t = "-0.6" -> <<-3, 5>>
          [] t = "1.0" -> <<1, 1>>    [] t = "100.0" -> <<100, 1>>
          [] t = "-3.0" -> <<-3, 1>>  [] t = "3.0" -> <<3, 1>>
          [] t = "3" -> <<3, 1>>]

FloatOK(t) == t \in DOMAIN FloatTable
Float(t) == FloatTable[t]

\* str(x) of a float: its shortest repr, which always carries a decimal point
Str(x) == CHOOSE t \in DOMAIN FloatTable \ {"3"} : FloatTable[t] = x

(***************************************************************************)
(* Files on disk.  A file is its name, whether its header row names the    *)
(* columns H(Oe) and M(emu), and the rows below the header; a row is       *)
(* <<H in Oe, M in emu>>, NULL standing for a missing value (NaN).         *)
(***************************************************************************)
Oe(t) == RInt(t * 10000)
Emu(k) == Rat(k, 100000)

\* what pd.read_csv does with the file under each encoding: it returns the
\* frame ("ok") or raises UnicodeDecodeError or another exception
ReadOutcomes == {"ok", "UnicodeDecodeError", "ParserError"}
Readable == [e \in {"shift-jis", "utf-8"} |-> "ok"]

RowKinds ==
    {<<Oe(h), Emu(m)>> : h \in {-1, 1}, m \in {-1, 1}} \cup {<<Oe(1), NULL>>}

\* every file of at most MaxRows rows over RowKinds, and one file without
\* the two columns
ShortFiles ==
    {[name |-> "short.VSM", cols |-> TRUE, read |-> Readable, rows |-> r] :
        r \in UNION {[1..n -> RowKinds] : n \in 0..MaxRows}}
    \cup {[name |-> "other.VSM", cols |-> FALSE, read |-> Readable, rows |-> <<<<Oe(1), Emu(1)>>>>]}

\* files pd.read_csv may fail to decode or parse, with or without the two
\* columns
UnreadableFiles ==
    {[name |-> "bad.VSM", cols |-> c, read |-> r,
      rows |-> <<<<Oe(1), Emu(1)>>, <<Oe(1), NULL>>, <<Oe(-1), Emu(-1)>>>>] :
        c \in BOOLEAN, r \in [{"shift-jis", "utf-8"} -> ReadOutcomes]}

\* field of one sweep in T: down from 4 to -3 and back up to 2
SweepH == <<4, 2, 1, 0, -1, -2, -3, -2, -1, 0, 1, 2>>

\* moment in kA/m of sample i of a sweep: saturation 2 with a linear tail on
\* each side, remanence 1, and an optional kink on the ascending branch
SweepM(i, tailPos, tailNeg, kink) ==
    LET h == SweepH[i]
    IN  CASE h > 0 -> 2 + tailPos * h + (IF i = 12 THEN kink ELSE 0)
          [] h < 0 -> -2 + tailNeg * h
          [] OTHER -> IF i < 7 THEN 1 ELSE -1

SweepFiles ==
    {[name |-> "sweep.VSM", cols |-> TRUE, read |-> Readable,
      rows |-> [i \in 1..Len(SweepH) |->
                   <<Oe(SweepH[i]), Emu(SweepM(i, tp, tn, k))>>]] :
        tp \in {0, MaxTail}, tn \in {-MaxTail, 0}, k \in {0, 1}}

\* field of a ramp in T: down from 2K to -2K in steps of 2, back up from
\* -2K + 1 to 2K - 1 in steps of 2: 4K + 1 samples, no field twice
RampH(K) ==
    [i \in 1..(4 * K + 1) |->
        IF i <= 2 * K + 1 THEN 2 * K - 2 * (i - 1)
        ELSE 2 * (i - 2 * K - 2) + 1 - 2 * K]

\* moment of sample i of a ramp, at field h: a line, a line clipped at +-3,
\* a line with the first sample off it
RampM(i, h, shape) ==
    CASE shape = "line" -> 2 * h + 1
      [] shape = "clipped" -> IF h > 3 THEN 3 ELSE IF h < -3 THEN -3 ELSE h
      [] OTHER -> IF i = 1 THEN h + 1 ELSE h

RampFiles ==
    {[name |-> "ramp.VSM", cols |-> TRUE, read |-> Readable,
      rows |-> [i \in 1..(4 * K + 1) |->
                   <<Oe(RampH(K)[i]), Emu(RampM(i, RampH(K)[i], shape))>>]] :
        K \in 1..MaxHalf, shape \in {"line", "clipped", "kinked"}}

\* field of a hysteresis loop in units of 0.5 T, 17 samples: from -2 T up to
\* 2 T and back down when upFirst, from 2 T down to -2 T and back up otherwise
LoopH(i, upFirst) ==
    LET up == IF i <= 9 THEN i - 5 ELSE 13 - i
    IN  IF upFirst THEN up ELSE -up

\* moment on the ascending branch at field h (in 0.5 T): -Ms = -20 up to
\* -1 T, -Mr at 0 T, 0 at the coercive field 0.5 T, Ms = 20 from 1.5 T
AscM(h, Mr) ==
    CASE h <= -2 -> -20
      [] h = -1 -> -15
      [] h = 0 -> -Mr
      [] h = 1 -> 0
      [] h = 2 -> 10
      [] OTHER -> 20

\* the descending branch is the ascending one mirrored through the origin
LoopM(i, Mr, upFirst) ==
    IF (i <= 9) = upFirst THEN AscM(LoopH(i, upFirst), Mr)
    ELSE -AscM(-LoopH(i, upFirst), Mr)

LoopFile(Mr, upFirst) ==
    [name |-> IF upFirst THEN "up_first.VSM" ELSE "down_first.VSM",
     cols |-> TRUE, read |-> Readable,
     rows |-> [i \in 1..17 |->
                  <<RInt(5000 * LoopH(i, upFirst)), Emu(LoopM(i, Mr, upFirst))>>]]

LoopFiles == {LoopFile(Mr, upFirst) : Mr \in {10, 12}, upFirst \in BOOLEAN}

FilesOn(d) ==
    CASE d = "short" -> ShortFiles
      [] d = "ramp" -> RampFiles
      [] d = "loop" -> LoopFiles
      [] OTHER -> SweepFiles

(***************************************************************************)
(* analysis/file_io.py                                                     *)
(***************************************************************************)
\* A text file as find_header_row sees it: whether open() succeeds, its
\* number of lines n, the indices (0-based) of the lines that contain both
\* "H(Oe)" and "M(emu)", and per encoding the index of the first line the
\* decoder does not deliver because it raises UnicodeDecodeError (NoLine when
\* the whole file decodes).
NoLine == -1
encodings_to_try == <<"shift-jis", "utf-8">>
default_row == 40
ScanLimit == 100

\* the line indices the files of the model put headers and decoding errors at
Marks == {0, 1, default_row, ScanLimit - 1, ScanLimit, ScanLimit + 1, MaxLines - 1}

HeaderFiles ==
    {[openable |-> o, n |-> n, headers |-> h, raise_at |-> ra] :
        o \in BOOLEAN, n \in {0, MaxLines},
        h \in {x \in SUBSET Marks : Cardinality(x) <= 2},
        ra \in [{"shift-jis", "utf-8"} -> {NoLine, 0, ScanLimit}]}
    \ {f \in [openable : BOOLEAN, n : {0}, headers : SUBSET Marks,
              raise_at : [{"shift-jis", "utf-8"} -> {NoLine, 0, ScanLimit}]] :
          f.headers # {}}

\* lines 13-19 under one encoding: the lines the loop body runs on are those
\* the decoder delivers; the body tests the line first and leaves the loop
\* after the test when i > 100.  The index returned, or NoLine when the loop
\* ends, breaks or the decoder raises before a header line is seen.
scan_for_header(file, encoding) ==
    LET delivered == {i \in 0..(file.n - 1) :
                         file.raise_at[encoding] = NoLine \/ i < file.raise_at[encoding]}
        tested == {i \in delivered : \A j \in 0..(i - 1) : ~(j > ScanLimit)}
        found == tested \cap file.headers
    IN  IF ~file.openable \/ found = {} THEN NoLine
        ELSE CHOOSE i \in found : \A j \in found : i <= j

\* lines 5-26
find_header_row(file) ==
    LET first == scan_for_header(file, encodings_to_try[1])
        second == scan_for_header(file, encodings_to_try[2])
    IN  IF first # NoLine THEN [row |-> first, msgs |-> {"header_found"}]
        ELSE IF second # NoLine THEN [row |-> second, msgs |-> {"header_found"}]
        ELSE [row |-> default_row, msgs |-> {"header_default"}]

\* A line of text is the sequence of its characters, over a letter, the two
\* separators and the blank.
Chars == {"a", "=", ",", " "}
TextLines == UNION {[1..n -> Chars] : n \in 0..MaxChars}

\* str.strip(): without the blanks at either end
strip(t) ==
    LET solid == {i \in 1..Len(t) : t[i] # " "}
    IN  IF solid = {} THEN <<>>
        ELSE SubSeq(t, CHOOSE i \in solid : \A j \in solid : i <= j,
                       CHOOSE i \in solid : \A j \in solid : j <= i)

\* str.find(c) + 1: the position of the first c in t, 0 without one
find(t, c) ==
    LET at == {i \in 1..Len(t) : t[i] = c}
    IN  IF at = {} THEN 0 ELSE CHOOSE i \in at : \A j \in at : i <= j

\* value_part.split(",")[1] for a value_part that starts with ","
second_token(value_part) ==
    LET rest == SubSeq(value_part, 2, Len(value_part))
        next == find(rest, ",")
    IN  IF next = 0 THEN rest ELSE SubSeq(rest, 1, next - 1)

\* lines 43-53: the entry <<key, value>> a line adds, NULL when it adds none
parse_line(text) ==
    LET line == strip(text)
        eq == find(line, "=")
        key == strip(SubSeq(line, 1, eq - 1))
        value_part == SubSeq(line, eq + 1, Len(line))
        value == strip(second_token(value_part))
    IN  IF eq = 0 THEN NULL
        ELSE IF value_part = <<>> \/ value_part[1] # "," THEN NULL
        ELSE IF key # <<>> /\ value # <<>> THEN <<key, value>>
        ELSE NULL

\* metadata[key] = value on a dict held as its set of items
put(metadata, entry) == {p \in metadata : p[1] # entry[1]} \cup {entry}

\* A file as parse_metadata sees it: whether open() succeeds, lead blank
\* lines followed by the lines of text, and per encoding the index (0-based)
\* of the first line the decoder does not deliver (NoLine: all).
PreambleLimit == 40
GoodLine == <<"a", "=", ",", "a", "a">>

MetaFaults ==
    {[openable |-> TRUE, sjis |-> NoLine, utf8 |-> NoLine],
     [openable |-> FALSE, sjis |-> NoLine, utf8 |-> NoLine],
     [openable |-> TRUE, sjis |-> 1, utf8 |-> NoLine],
     [openable |-> TRUE, sjis |-> 1, utf8 |-> 1]}

MetaFiles ==
    {[openable |-> ft.openable, lead |-> l, lines |-> ls,
      raise_at |-> [e \in {"shift-jis", "utf-8"} |->
                       IF e = "shift-jis"
                       THEN (IF ft.sjis = NoLine THEN NoLine ELSE l + ft.sjis)
                       ELSE (IF ft.utf8 = NoLine THEN NoLine ELSE l + ft.utf8)]] :
        ft \in MetaFaults, l \in {0, PreambleLimit},
        ls \in {<<x>> : x \in TextLines} \cup {<<x, GoodLine>> : x \in TextLines}}

\* line k of file.lines is line file.lead + k - 1 of the file; the loop body
\* runs on it when the decoder delivers it and its index is not above 40
scanned(file, encoding, k) ==
    LET i == file.lead + k - 1
    IN  /\ file.raise_at[encoding] = NoLine \/ i < file.raise_at[encoding]
        /\ ~(i > PreambleLimit)

\* scan_lines leaving the loop at the first line that adds no entry
RECURSIVE scan_lines_stop_at_bad(_, _, _, _)
scan_lines_stop_at_bad(file, encoding, metadata, k) ==
    IF k > Len(file.lines) \/ ~scanned(file, encoding, k) THEN metadata
    ELSE IF parse_line(file.lines[k]) = NULL THEN metadata
    ELSE scan_lines_stop_at_bad(file, encoding,
                                put(metadata, parse_line(file.lines[k])), k + 1)

\* lines 39-55 under one encoding, from line k of file.lines on (a blank
\* line adds nothing)
RECURSIVE scan_lines(_, _, _, _)
scan_lines(file, encoding, metadata, k) ==
    IF k > Len(file.lines) \/ ~scanned(file, encoding, k) THEN metadata
    ELSE scan_lines(file, encoding,
                    IF parse_line(file.lines[k]) = NULL THEN metadata
                    ELSE put(metadata, parse_line(file.lines[k])),
                    k + 1)

\* lines 29-62: the dict is filled under shift-jis and returned when that
\* pass ends without an exception and the dict is not empty; else the pass
\* under utf-8 goes on with the same dict, which is returned at the end
parse_metadata(file) ==
    LET first == scan_lines(file, encodings_to_try[1], {}, 1)
        decoded == file.raise_at[encodings_to_try[1]] = NoLine
    IN  IF ~file.openable THEN {}
        ELSE IF decoded /\ first # {} THEN first
        ELSE scan_lines(file, encodings_to_try[2], first, 1)

\* pd.read_csv followed by df.dropna(inplace=True): the complete rows, each
\* keeping the index label (0-based row number) read_csv gave it
RECURSIVE dropna(_, _)
dropna(rows, label) ==
    IF rows = <<>> THEN <<>>
    ELSE IF Len(rows) = 1
    THEN (IF rows[1][1] = NULL \/ rows[1][2] = NULL THEN <<>>
          ELSE <<[idx |-> label, H |-> rows[1][1], M |-> rows[1][2]]>>)
    ELSE dropna(SubSeq(rows, 1, Len(rows) \div 2), label)
         \o dropna(SubSeq(rows, Len(rows) \div 2 + 1, Len(rows)),
                   label + Len(rows) \div 2)

\* the value None of Python
None == "None"

\* lines 71-74: the frame is read as shift-jis, and as utf-8 when that raises
\* UnicodeDecodeError; an exception of the second read, or another exception
\* of the first, leaves the inner try
read_csv(file) ==
    IF file.read["shift-jis"] = "UnicodeDecodeError" THEN file.read["utf-8"]
    ELSE file.read["shift-jis"]

\* the handler of line 83 catches UnicodeDecodeError only
load_vsm_file_catch_decode_only(file, exc) ==
    IF exc = "UnicodeDecodeError"
    THEN [df |-> None, error_message |-> "read_failed", raises |-> ""]
    ELSE [df |-> None, error_message |-> None, raises |-> exc]

\* lines 83-84: every exception of the body becomes an error message
load_vsm_file_except(file, exc) ==
    [df |-> None, error_message |-> "read_failed", raises |-> ""]

load_vsm_file(file) ==
    IF read_csv(file) # "ok" THEN load_vsm_file_except(file, read_csv(file))
    ELSE IF ~file.cols
    THEN [df |-> None, error_message |-> "missing_columns", raises |-> ""]
    ELSE [df |-> dropna(file.rows, 0), error_message |-> "",
          raises |-> ""]

(***************************************************************************)
(* Library functions the analysis calls                                    *)
(***************************************************************************)
Col(pts, k) == [i \in 1..Len(pts) |-> pts[i][k]]
Zip(xs, ys) == [i \in 1..Len(xs) |-> <<xs[i], ys[i]>>]
Reverse(s) == [i \in 1..Len(s) |-> s[Len(s) + 1 - i]]
RProd(xs, ys) == [i \in 1..Len(xs) |-> RMul(xs[i], ys[i])]

\* scipy.stats.linregress(x, y) on at least two points: ValueError when all x
\* are identical; slope = ssxym / ssxm; rvalue is 0 when ssym is 0
linregress(xs, ys) ==
    LET mx == Mean(xs)
        my == Mean(ys)
        ssxm == RSub(Mean(RProd(xs, xs)), RMul(mx, mx))
        ssym == RSub(Mean(RProd(ys, ys)), RMul(my, my))
        ssxym == RSub(Mean(RProd(xs, ys)), RMul(mx, my))
    IN  IF RMaxSeq(xs) = RMinSeq(xs)
        THEN [raised |-> TRUE, slope |-> RZero, r2 |-> RZero]
        ELSE [raised |-> FALSE,
              slope |-> RDiv(ssxym, ssxm),
              r2 |-> IF ssym = RZero THEN RZero
                     ELSE RDiv(RMul(ssxym, ssxym), RMul(ssxm, ssym))]

\* np.interp(x, xp, fp) on non-empty arrays: fp[0] left of xp[0], fp[-1]
\* right of xp[-1], else linear between the neighbours the search finds
\* (the first j with xp[j] <= x < xp[j+1] for the short arrays of the model)
interp_search(x, xp, i) ==
    LET above == {k \in i..Len(xp) : ~RGe(x, xp[k])}
    IN  IF above = {} THEN Len(xp)
        ELSE (CHOOSE k \in above : \A m \in above : k <= m) - 1

interp(x, xp, fp) ==
    LET n == Len(xp)
        j == interp_search(x, xp, 1)
    IN  IF n = 1 THEN fp[1]
        ELSE IF RGt(x, xp[n]) THEN fp[n]
        ELSE IF RLt(x, xp[1]) THEN fp[1]
        ELSE IF j = n THEN fp[n]
        ELSE IF xp[j] = x THEN fp[j]
        ELSE RAdd(RMul(RDiv(RSub(fp[j + 1], fp[j]), RSub(xp[j + 1], xp[j])),
                       RSub(x, xp[j])),
                  fp[j])

\* DataFrame.sort_values(by="H"): rows ordered by field, equal fields in
\* their original order
sort_values(pts) ==
    LET n == Len(pts)
        before(j, i) == \/ RLt(pts[j][1], pts[i][1])
                        \/ ~RLt(pts[i][1], pts[j][1]) /\ j < i
        rank == SubSeq([i \in 1..n |->
                           1 + Cardinality({j \in 1..n : before(j, i)})], 1, n)
    IN  SubSeq([k \in 1..n |-> pts[CHOOSE i \in 1..n : rank[i] = k]], 1, n)

(***************************************************************************)
(* analysis/calculations.py                                                *)
(***************************************************************************)
\* segment_ratio = 0.15 and the minimum segment of 5 points
MinSegment == 5
\* segment_size without the ratio: always the minimum
segment_size_minimum(n_points) == MinSegment

segment_size(n_points) ==
    LET r == (n_points * 15) \div 100
    IN  IF r > MinSegment THEN r ELSE MinSegment

min_r_squared == Rat(99, 100)

\* lines 33-49, one side: the outcome of the regression over a segment
auto_fit(res, side) ==
    IF res.raised
    THEN [slope |-> RZero, r2 |-> RZero, msgs |-> {<<"slope_fit_failed", side>>}]
    ELSE [slope |-> res.slope, r2 |-> res.r2,
          msgs |-> IF RLt(res.r2, min_r_squared)
                   THEN {<<"slope_low_r2", side>>} ELSE {}]

auto_side(seg, side) == auto_fit(linregress(Col(seg, 1), Col(seg, 2)), side)

\* the return of find_demag_slope_auto, giving 0, 0, 0 when the combined
\* slope is 0
auto_return_zeroed(pos, neg) ==
    LET slope == RDiv(RAdd(pos.slope, neg.slope), RInt(2))
    IN  [slope |-> slope,
         r2_pos |-> IF slope = RZero THEN RZero ELSE pos.r2,
         r2_neg |-> IF slope = RZero THEN RZero ELSE neg.r2,
         slope_pos |-> pos.slope, slope_neg |-> neg.slope,
         msgs |-> pos.msgs \cup neg.msgs]

\* line 51: return (slope_pos + slope_neg) / 2, r2_pos, r2_neg
auto_return(pos, neg) ==
    [slope |-> RDiv(RAdd(pos.slope, neg.slope), RInt(2)),
     r2_pos |-> pos.r2, r2_neg |-> neg.r2,
     slope_pos |-> pos.slope, slope_neg |-> neg.slope,
     msgs |-> pos.msgs \cup neg.msgs]

\* lines 26-51 on the sorted frame df
auto_segments(df) ==
    LET n_points == Len(df)
        seg == segment_size(n_points)
    IN  IF n_points < seg * 2
        THEN [slope |-> RZero, r2_pos |-> RZero, r2_neg |-> RZero,
              slope_pos |-> RZero, slope_neg |-> RZero,
              msgs |-> {<<"slope_auto_skipped", "both">>}]
        ELSE auto_return(auto_side(SubSeq(df, n_points - seg + 1, n_points), "pos"),
                         auto_side(SubSeq(df, 1, seg), "neg"))

find_demag_slope_auto(H_data, M_data) == auto_segments(sort_values(Zip(H_data, M_data)))

\* (H >= range[0]) & (H <= range[1])
in_range(H, range) == [i \in 1..Len(H) |-> RGe(H[i], range[1]) /\ RLe(H[i], range[2])]

\* one side of find_demag_slope_manual with 2 or more points: the outcome of
\* the regression, few being the warning for fewer than 5 points
manual_fit(res, side, few) ==
    IF res.raised
    THEN [slope |-> RZero, r2 |-> RZero,
          msgs |-> few \cup {<<"slope_fit_failed", side>>}]
    ELSE [slope |-> res.slope, r2 |-> res.r2, msgs |-> few]

\* manual_side with the message of the fewer-than-2-points case left out
manual_side_silent(H_data, M_data, range, side) ==
    LET mask == in_range(H_data, range)
        xs == Pick(H_data, mask)
        ys == Pick(M_data, mask)
        num == Len(xs)
        few == IF num < 5 THEN {<<"slope_few_points", side>>} ELSE {}
    IN  IF num >= 2
        THEN manual_fit(linregress(xs, ys), side, few)
        ELSE [slope |-> RZero, r2 |-> RZero, msgs |-> {}]

\* one side of find_demag_slope_manual
manual_side(H_data, M_data, range, side) ==
    LET mask == in_range(H_data, range)
        xs == Pick(H_data, mask)
        ys == Pick(M_data, mask)
        num == Len(xs)
        few == IF num < 5 THEN {<<"slope_few_points", side>>} ELSE {}
    IN  IF num >= 2
        THEN manual_fit(linregress(xs, ys), side, few)
        ELSE [slope |-> RZero, r2 |-> RZero, msgs |-> {<<"slope_lt2_points", side>>}]

\* manual_return giving 0, 0, 0 unless both sides have a slope
manual_return_both_or_none(pos, neg) ==
    IF pos.slope # RZero /\ neg.slope # RZero
    THEN [slope |-> RDiv(RAdd(pos.slope, neg.slope), RInt(2)),
          r2_pos |-> pos.r2, r2_neg |-> neg.r2,
          slope_pos |-> pos.slope, slope_neg |-> neg.slope,
          msgs |-> pos.msgs \cup neg.msgs]
    ELSE [slope |-> RZero, r2_pos |-> RZero, r2_neg |-> RZero,
          slope_pos |-> pos.slope, slope_neg |-> neg.slope,
          msgs |-> pos.msgs \cup neg.msgs]

\* lines 91-100: the slope and the R^2 values returned for the two sides
manual_return(pos, neg) ==
    LET msgs == pos.msgs \cup neg.msgs
        out(s, rp, rn, m) ==
            [slope |-> s, r2_pos |-> rp, r2_neg |-> rn,
             slope_pos |-> pos.slope, slope_neg |-> neg.slope, msgs |-> msgs \cup m]
    IN  IF pos.slope # RZero /\ neg.slope # RZero
        THEN out(RDiv(RAdd(pos.slope, neg.slope), RInt(2)), pos.r2, neg.r2, {})
        ELSE IF pos.slope # RZero
        THEN out(pos.slope, pos.r2, neg.r2, {<<"slope_only", "pos">>})
        ELSE IF neg.slope # RZero
        THEN out(neg.slope, pos.r2, neg.r2, {<<"slope_only", "neg">>})
        ELSE out(RZero, RZero, RZero, {})

find_demag_slope_manual(H_data, M_data, pos_range, neg_range) ==
    manual_return(manual_side(H_data, M_data, pos_range, "pos"),
                  manual_side(H_data, M_data, neg_range, "neg"))

calculate_remanence(H_down, M_down, H_up, M_up) ==
    IF H_down = <<>> \/ H_up = <<>>
    THEN NULL
    ELSE LET Mr_down == interp(RZero, Reverse(H_down), Reverse(M_down))
             Mr_up == interp(RZero, H_up, M_up)
         IN  RDiv(RAdd(RAbs(Mr_down), RAbs(Mr_up)), RInt(2))

calculate_coercivity(H_down, M_down, H_up, M_up) ==
    IF H_down = <<>> \/ H_up = <<>>
    THEN NULL
    ELSE LET Hc_down == interp(RZero, Reverse(M_down), Reverse(H_down))
             Hc_up == interp(RZero, M_up, H_up)
             Hc_avg == RDiv(RAdd(RAbs(Hc_down), RAbs(Hc_up)), RInt(2))
         IN  <<Hc_avg, RMul(Hc_avg, RInt(10000))>>

\* mean_where giving 0 for fewer than 2 selected samples
mean_where_min2(M, mask, absolute) ==
    LET sel == Pick(M, mask)
    IN  IF Len(sel) < 2 THEN RZero
        ELSE IF absolute THEN Mean(MapSeq(sel, RAbs)) ELSE Mean(sel)

\* np.mean(M[mask]) if any(mask) else 0, optionally of the absolute values
mean_where(M, mask, absolute) ==
    LET sel == Pick(M, mask)
    IN  IF sel = <<>> THEN RZero
        ELSE IF absolute THEN Mean(MapSeq(sel, RAbs)) ELSE Mean(sel)

above_90(H) == LET lim == RMul(RMaxSeq(H), Rat(9, 10))
               IN  [i \in 1..Len(H) |-> RGt(H[i], lim)]
below_90(H) == LET lim == RMul(RMinSeq(H), Rat(9, 10))
               IN  [i \in 1..Len(H) |-> RLt(H[i], lim)]

Count(mask) == Len(Pick(mask, mask))

calculate_saturation_magnetization(H, M, pos_range, neg_range) ==
    LET manual == pos_range # NULL /\ neg_range # NULL
        pos_mask == IF manual THEN in_range(H, pos_range) ELSE above_90(H)
        neg_mask == IF manual THEN in_range(H, neg_range) ELSE below_90(H)
        Ms_pos == mean_where(M, pos_mask, FALSE)
        Ms_neg == mean_where(M, neg_mask, TRUE)
        msgs == IF manual
                THEN {<<"ms_manual_ranges", "both">>}
                     \cup (IF Count(pos_mask) < 2 THEN {<<"ms_few_points", "pos">>} ELSE {})
                     \cup (IF Count(neg_mask) < 2 THEN {<<"ms_few_points", "neg">>} ELSE {})
                ELSE {<<"ms_auto_ranges", "both">>}
        Ms_avg == IF Ms_pos # RZero /\ Ms_neg # RZero
                  THEN RDiv(RAdd(Ms_pos, Ms_neg), RInt(2))
                  ELSE IF Ms_pos # RZero THEN Ms_pos ELSE Ms_neg
    IN  [avg |-> Ms_avg, pos |-> Ms_pos, neg |-> Ms_neg, msgs |-> msgs]

(***************************************************************************)
(* app/graph_manager.py: GraphManager._process_and_plot, one file          *)
(***************************************************************************)
\* Series.idxmin() / Series.idxmax(): the index LABEL of the first minimum /
\* maximum of a non-empty column
first_at(df, v, i) ==
    df[CHOOSE k \in i..Len(df) : df[k].H = v /\ \A j \in i..(k - 1) : df[j].H # v].idx

idxmin(df) == first_at(df, RMinSeq([i \in 1..Len(df) |-> df[i].H]), 1)
idxmax(df) == first_at(df, RMaxSeq([i \in 1..Len(df) |-> df[i].H]), 1)

\* df.iloc[k:] and df.iloc[:k], by POSITION, for k >= 0
iloc_from(df, k) == SubSeq(df, k + 1, Len(df))
iloc_to(df, k) == SubSeq(df, 1, IF k < Len(df) THEN k ELSE Len(df))

\* lines 215-219: the samples kept for the analysis
truncate_sweep(df) ==
    IF df = <<>>
    THEN [error |-> "empty_sequence", df_loop |-> <<>>]
    ELSE LET min_H_idx == idxmin(df)
             tail == iloc_from(df, min_H_idx)
         IN  IF tail = <<>>
             THEN [error |-> "incomplete_loop", df_loop |-> <<>>]
             ELSE [error |-> "",
                   df_loop |-> iloc_to(df, min_H_idx + idxmax(tail) + 1)]

\* lines 225-257: slope and R^2 of the diamagnetic background
estimate_slope(H_raw, M_raw, settings) ==
    LET none == [slope |-> RZero, r2_pos |-> RZero, r2_neg |-> RZero,
                 slope_pos |-> RZero, slope_neg |-> RZero]
        texts == <<settings.pos_range[1], settings.pos_range[2],
                   settings.neg_range[1], settings.neg_range[2]>>
    IN  IF ~settings.enabled
        THEN none @@ [msgs |-> {<<"demag_disabled", "both">>}]
        ELSE IF ~settings.manual
        THEN find_demag_slope_auto(H_raw, M_raw)
        ELSE IF \E i \in 1..4 : ~FloatOK(texts[i])
        THEN none @@ [msgs |-> {<<"slope_range_invalid", "both">>}]
        ELSE find_demag_slope_manual(H_raw, M_raw,
                                     <<Float(texts[1]), Float(texts[2])>>,
                                     <<Float(texts[3]), Float(texts[4])>>)

\* the offset is the sum of the two means, not their average
correct_moment_sum_offset(H_raw, M_raw, slope, offset_correction) ==
    LET M_corrected == [i \in 1..Len(H_raw) |-> RSub(M_raw[i], RMul(H_raw[i], slope))]
        Ms_pos == mean_where(M_corrected, above_90(H_raw), FALSE)
        Ms_neg == mean_where(M_corrected, below_90(H_raw), FALSE)
        offset == RAdd(Ms_pos, Ms_neg)
    IN  IF offset_correction
        THEN [M_corrected |-> M_corrected, offset |-> offset,
              M_final |-> [i \in 1..Len(H_raw) |-> RSub(M_corrected[i], offset)]]
        ELSE [M_corrected |-> M_corrected, offset |-> NULL, M_final |-> M_corrected]

\* correct_moment with the offset estimated from the raw moments
correct_moment_raw_offset(H_raw, M_raw, slope, offset_correction) ==
    LET M_corrected == [i \in 1..Len(H_raw) |-> RSub(M_raw[i], RMul(H_raw[i], slope))]
        Ms_pos == mean_where(M_raw, above_90(H_raw), FALSE)
        Ms_neg == mean_where(M_raw, below_90(H_raw), FALSE)
        offset == RDiv(RAdd(Ms_pos, Ms_neg), RInt(2))
    IN  IF offset_correction
        THEN [M_corrected |-> M_corrected, offset |-> offset,
              M_final |-> [i \in 1..Len(H_raw) |-> RSub(M_corrected[i], offset)]]
        ELSE [M_corrected |-> M_corrected, offset |-> NULL, M_final |-> M_corrected]

\* lines 259-278: slope subtraction, then the optional offset subtraction
correct_moment(H_raw, M_raw, slope, offset_correction) ==
    LET M_corrected == [i \in 1..Len(H_raw) |-> RSub(M_raw[i], RMul(H_raw[i], slope))]
        Ms_pos == mean_where(M_corrected, above_90(H_raw), FALSE)
        Ms_neg == mean_where(M_corrected, below_90(H_raw), FALSE)
        offset == RDiv(RAdd(Ms_pos, Ms_neg), RInt(2))
    IN  IF offset_correction
        THEN [M_corrected |-> M_corrected, offset |-> offset,
              M_final |-> [i \in 1..Len(H_raw) |-> RSub(M_corrected[i], offset)]]
        ELSE [M_corrected |-> M_corrected, offset |-> NULL, M_final |-> M_corrected]

\* lines 280-288: the two branches, cut at the label H_raw.idxmin() used as
\* a position
split_branches(idx_loop, H_raw, M_final) ==
    LET min_H_idx_loop == idx_loop[CHOOSE i \in 1..Len(H_raw) :
                              /\ H_raw[i] = RMinSeq(H_raw)
                              /\ \A j \in 1..(i - 1) : H_raw[j] # H_raw[i]]
        n == Len(H_raw)
        upto == IF min_H_idx_loop + 1 < n THEN min_H_idx_loop + 1 ELSE n
    IN  [min_H_idx_loop |-> min_H_idx_loop,
         H_down |-> SubSeq(H_raw, 1, upto),
         M_down |-> SubSeq(M_final, 1, upto),
         H_up |-> SubSeq(H_raw, min_H_idx_loop + 1, n),
         M_up |-> SubSeq(M_final, min_H_idx_loop + 1, n)]

\* ms_ranges without the test h_max_limit > 0
ms_ranges_any_max(ms_settings, params) ==
    LET texts == <<ms_settings.pos_range[1], ms_settings.pos_range[2],
                   ms_settings.neg_range[1], ms_settings.neg_range[2]>>
        h_max_limit == params.xlim_max
        h_min_limit == params.xlim_min
        tenth == RMul(RSub(h_max_limit, h_min_limit), Rat(1, 10))
    IN  IF ms_settings.saved /\ ms_settings.manual
        THEN IF \E i \in 1..4 : ~FloatOK(texts[i])
             THEN [pos |-> NULL, neg |-> NULL,
                   msgs |-> {<<"ms_manual", "both">>, <<"ms_range_invalid", "both">>}]
             ELSE [pos |-> <<Float(texts[1]), Float(texts[2])>>,
                   neg |-> <<Float(texts[3]), Float(texts[4])>>,
                   msgs |-> {<<"ms_manual", "both">>}]
        ELSE IF params.xlim_max # NULL /\ params.xlim_min # NULL
        THEN IF RLt(h_min_limit, h_max_limit)
             THEN [pos |-> <<RSub(h_max_limit, tenth), h_max_limit>>,
                   neg |-> <<h_min_limit, RAdd(h_min_limit, tenth)>>,
                   msgs |-> {<<"ms_plot_limits", "both">>}]
             ELSE [pos |-> NULL, neg |-> NULL, msgs |-> {<<"ms_plot_limits", "both">>}]
        ELSE [pos |-> NULL, neg |-> NULL, msgs |-> {}]

\* lines 299-334: the field windows handed to the Ms calculation
ms_ranges(ms_settings, params) ==
    LET texts == <<ms_settings.pos_range[1], ms_settings.pos_range[2],
                   ms_settings.neg_range[1], ms_settings.neg_range[2]>>
        h_max_limit == params.xlim_max
        h_min_limit == params.xlim_min
        tenth == RMul(RSub(h_max_limit, h_min_limit), Rat(1, 10))
    IN  IF ms_settings.saved /\ ms_settings.manual
        THEN IF \E i \in 1..4 : ~FloatOK(texts[i])
             THEN [pos |-> NULL, neg |-> NULL,
                   msgs |-> {<<"ms_manual", "both">>, <<"ms_range_invalid", "both">>}]
             ELSE [pos |-> <<Float(texts[1]), Float(texts[2])>>,
                   neg |-> <<Float(texts[3]), Float(texts[4])>>,
                   msgs |-> {<<"ms_manual", "both">>}]
        ELSE IF params.xlim_max # NULL /\ params.xlim_min # NULL
        THEN IF RGt(h_max_limit, RZero) /\ RLt(h_min_limit, h_max_limit)
             THEN [pos |-> <<RSub(h_max_limit, tenth), h_max_limit>>,
                   neg |-> <<h_min_limit, RAdd(h_min_limit, tenth)>>,
                   msgs |-> {<<"ms_plot_limits", "both">>}]
             ELSE [pos |-> NULL, neg |-> NULL, msgs |-> {<<"ms_plot_limits", "both">>}]
        ELSE [pos |-> NULL, neg |-> NULL, msgs |-> {}]

\* squareness_of guarding against Ms = 0 only
squareness_of_nonzero(Mr_avg, Ms) ==
    IF Mr_avg # NULL /\ Ms # NULL /\ Ms # RZero THEN RDiv(Mr_avg, Ms) ELSE NULL

\* lines 349-355
squareness_of(Mr_avg, Ms) ==
    IF Mr_avg # NULL /\ Ms # NULL /\ RGt(Ms, RZero) THEN RDiv(Mr_avg, Ms) ELSE NULL

\* the locals of one pass of the loop body when it raises
failed_file(data, params, offset_correction, err) ==
    [data |-> data, params |-> params, offset_correction |-> offset_correction,
     error |-> err, msgs |-> {<<err, "both">>}]

\* lines 213-220: the locals of one pass of the loop body after the
\* truncation; error is "" when the pass reaches analysis_results.append
loop_samples(data, params, offset_correction, df_loop) ==
    LET Vol == RMul(RMul(params.Area, Float(data.thickness_var)), Rat(1, 10000000))
    IN  [data |-> data, params |-> params,
         offset_correction |-> offset_correction, error |-> "",
         df_loop |-> df_loop,
         H_raw |-> [i \in 1..Len(df_loop) |-> RMul(df_loop[i].H, Rat(1, 10000))],
         M_raw |-> [i \in 1..Len(df_loop) |-> RDiv(df_loop[i].M, Vol)],
         msgs |-> IF offset_correction THEN {<<"offset_enabled", "both">>}
                  ELSE {<<"offset_disabled", "both">>}]

\* lines 225-257
with_slope(r, est) ==
    [r EXCEPT !.msgs = @ \cup est.msgs]
    @@ [slope |-> est.slope, r2_pos |-> est.r2_pos, r2_neg |-> est.r2_neg,
        slope_pos |-> est.slope_pos, slope_neg |-> est.slope_neg]

\* slope_step estimating the slope only when the offset correction is enabled
slope_step_with_offset_only(r) ==
    with_slope(r, estimate_slope(r.H_raw, r.M_raw,
                                 [r.data.demag_settings EXCEPT
                                      !.enabled = @ /\ r.offset_correction]))

slope_step(r) == with_slope(r, estimate_slope(r.H_raw, r.M_raw, r.data.demag_settings))

\* lines 259-278
with_correction(r, cor) ==
    r @@ [M_corrected |-> cor.M_corrected, offset |-> cor.offset,
          M_final |-> cor.M_final]

correction_step(r) ==
    with_correction(r, correct_moment(r.H_raw, r.M_raw, r.slope, r.offset_correction))

\* lines 280-288
with_branches(r, br) ==
    r @@ [H_down |-> br.H_down, M_down |-> br.M_down,
          H_up |-> br.H_up, M_up |-> br.M_up]

branches_step(r) ==
    with_branches(r, split_branches([i \in 1..Len(r.df_loop) |-> r.df_loop[i].idx],
                                    r.H_raw, r.M_final))

\* lines 299-334
with_ms_ranges(r, rng) ==
    [r EXCEPT !.msgs = @ \cup rng.msgs]
    @@ [ms_pos_range |-> rng.pos, ms_neg_range |-> rng.neg]

ms_ranges_step(r) == with_ms_ranges(r, ms_ranges(r.data.ms_calc_settings, r.params))

\* lines 336-340
with_Ms_results(r, Ms_results) ==
    [r EXCEPT !.msgs = @ \cup Ms_results.msgs]
    @@ [Ms_results |-> [avg |-> Ms_results.avg, pos |-> Ms_results.pos,
                        neg |-> Ms_results.neg]]

Ms_step(r) ==
    with_Ms_results(r, calculate_saturation_magnetization(
                           r.H_raw, r.M_final, r.ms_pos_range, r.ms_neg_range))

\* lines 291-297 and 342-357: the entry appended to analysis_results
with_file_results(r, Mr_avg, Hc_results) ==
    [r EXCEPT !.msgs = @ \cup (IF Mr_avg = NULL THEN {<<"mr_failed", "both">>} ELSE {})
                         \cup (IF Hc_results = NULL THEN {<<"hc_failed", "both">>} ELSE {})]
    @@ [file_results |->
            [filename |-> r.data.path, Ms |-> r.Ms_results.avg, Mr |-> Mr_avg,
             Hc_Oe |-> IF Hc_results # NULL THEN Hc_results[2] ELSE NULL,
             squareness |-> squareness_of(Mr_avg, r.Ms_results.avg)]]

file_results_step(r) ==
    with_file_results(r, calculate_remanence(r.H_down, r.M_down, r.H_up, r.M_up),
                      calculate_coercivity(r.H_down, r.M_down, r.H_up, r.M_up))

\* lines 213-357 once the thickness is parsed, cut being the truncation
analyse(data, params, offset_correction, cut) ==
    IF cut.error # ""
    THEN failed_file(data, params, offset_correction, cut.error)
    ELSE file_results_step(Ms_step(ms_ranges_step(branches_step(correction_step(
             slope_step(loop_samples(data, params, offset_correction,
                                     cut.df_loop)))))))

\* lines 209-398: one pass of the loop body
process_file(data, params, offset_correction) ==
    IF ~FloatOK(data.thickness_var)
    THEN failed_file(data, params, offset_correction, "thickness_invalid")
    ELSE analyse(data, params, offset_correction, truncate_sweep(data.df))

(***************************************************************************)
(* The application: VSMApp, StateManager, EventHandlers, GraphManager      *)
(***************************************************************************)
VARIABLES
    disk,              \* which family of files the file dialog offers
    vsm_data,          \* VSMApp.vsm_data: the loaded files, in list order
    file_color_vars,   \* VSMApp.file_color_vars
    analysis_results,  \* VSMApp.analysis_results
    last_run,          \* per file of the last _process_and_plot: its locals
    log_text,          \* the log widget: <<file position, message, side>>
    state,             \* StateManager: the traced variables the model writes
    update_job,        \* VSMApp._update_job: "none" or the id of the last timer
    after_jobs         \* Tk: the ids of the timers that are scheduled

vars == <<disk, vsm_data, file_color_vars, analysis_results, last_run,
          log_text, state, update_job, after_jobs>>

base_colors == <<"#1f77b4", "#ff7f0e", "#2ca02c", "#d62728", "#9467bd",
                 "#8c564b", "#e377c2", "#7f7f7f", "#bcbd22", "#17becf">>

\* vsm_app.py 549-556: the settings a file gets when it has none
default_demag_settings ==
    [enabled |-> TRUE, manual |-> FALSE, pos_range |-> <<"0.5", "1.2">>,
     neg_range |-> <<"-1.2", "-0.5">>, link_ranges |-> TRUE]

\* vsm_app.py 562-588: the UI variables built from the saved settings
demag_vars_of(settings) ==
    [enabled |-> settings.enabled, manual |-> settings.manual,
     pos_min |-> settings.pos_range[1], pos_max |-> settings.pos_range[2],
     neg_min |-> settings.neg_range[1], neg_max |-> settings.neg_range[2],
     link |-> settings.link_ranges]

\* a file has no "ms_calc_settings" key until the Ms dialog is saved
no_ms_calc_settings ==
    [saved |-> FALSE, manual |-> FALSE, link_ranges |-> TRUE,
     pos_range |-> <<"1.5", "2.0">>, neg_range |-> <<"-2.0", "-1.5">>]

\* float(v) if v else None
float_or_none(v) == IF v = "" THEN NULL ELSE Float(v)

\* graph_manager.py 143-171: the parameters, or "invalid" on ValueError
params_ok(st) ==
    /\ FloatOK(st.area_var)
    /\ st.xlim_min_var = "" \/ FloatOK(st.xlim_min_var)
    /\ st.xlim_max_var = "" \/ FloatOK(st.xlim_max_var)

params_of(st) ==
    [Area |-> Float(st.area_var),
     xlim_min |-> float_or_none(st.xlim_min_var),
     xlim_max |-> float_or_none(st.xlim_max_var)]

\* pass_results for a loop that stops at the first file that raises
pass_results_abort(run) ==
    LET first_error == CHOOSE k \in 1..(Len(run) + 1) :
                           /\ k <= Len(run) => run[k].error # ""
                           /\ \A j \in 1..(k - 1) : run[j].error = ""
    IN  [analysis_results |->
             [i \in 1..(first_error - 1) |-> run[i].file_results],
         last_run |-> run,
         log_text |-> UNION {{<<i, m[1], m[2]>> : m \in run[i].msgs} :
                                i \in 1..Len(run)}]

\* what a pass over the files leaves: the entries of the files that did not
\* raise, the locals of every file, and the lines of the log
pass_results(run) ==
    [analysis_results |->
         MapSeq(Pick(run, [i \in 1..Len(run) |-> run[i].error = ""]),
                LAMBDA r : r.file_results),
     last_run |-> run,
     log_text |-> UNION {{<<i, m[1], m[2]>> : m \in run[i].msgs} :
                            i \in 1..Len(run)}]

\* update_graph without the reset of line 203: the entries of a pass are
\* appended to those of the pass before
update_graph_accumulating(vd, st, old_results, old_run) ==
    IF ~params_ok(st) \/ vd = <<>>
    THEN [analysis_results |-> old_results, last_run |-> old_run, log_text |-> {}]
    ELSE LET out == pass_results([i \in 1..Len(vd) |->
                        process_file(vd[i], params_of(st), st.offset_correction_var)])
         IN  [out EXCEPT !.analysis_results = old_results \o @]

\* GraphManager.update_graph with the file list vd: the new values of
\* analysis_results, last_run and log_text
update_graph(vd, st, old_results, old_run) ==
    IF ~params_ok(st) \/ vd = <<>>
    THEN [analysis_results |-> old_results, last_run |-> old_run, log_text |-> {}]
    ELSE pass_results([i \in 1..Len(vd) |->
                          process_file(vd[i], params_of(st), st.offset_correction_var)])

SetResults(out) ==
    /\ analysis_results' = out.analysis_results
    /\ last_run' = out.last_run
    /\ log_text' = out.log_text

RunUpdateGraph(vd, st) == SetResults(update_graph(vd, st, analysis_results, last_run))

\* VSMApp._schedule_update: cancel the timer of _update_job, start a new one
after_id(job) ==
    IF job = "after#1" THEN "after#2"
    ELSE IF job = "after#2" THEN "after#3" ELSE "after#1"

\* a pending job is cancelled and no new one is started
schedule_update_cancel_only(jobs, job) ==
    [after_jobs |-> IF job \in jobs THEN jobs \ {job}
                    ELSE jobs \cup {after_id(job)},
     update_job |-> after_id(job)]

\* the job of _update_job is not cancelled
schedule_update_no_cancel(jobs, job) ==
    [after_jobs |-> jobs \cup {after_id(job)}, update_job |-> after_id(job)]

\* lines 522-524 on the timers jobs and _update_job = job
schedule_update(jobs, job) ==
    [after_jobs |-> (jobs \ {job}) \cup {after_id(job)},
     update_job |-> after_id(job)]

ScheduleUpdate ==
    /\ after_jobs' = schedule_update(after_jobs, update_job).after_jobs
    /\ update_job' = schedule_update(after_jobs, update_job).update_job

Init ==
    /\ disk \in {"short", "sweep", "ramp", "loop"}
    /\ vsm_data = <<>>
    /\ file_color_vars = <<>>
    /\ analysis_results = <<>>
    /\ last_run = <<>>
    /\ log_text = {}
    /\ state = [area_var |-> "1.0", offset_correction_var |-> TRUE,
                xlim_min_var |-> "", xlim_max_var |-> ""]
    /\ update_job = "none"
    /\ after_jobs = {}

\* EventHandlers.load_files: the dialog returns the paths in files
RECURSIVE loaded(_, _)
loaded(files, i) ==
    IF i > Len(files) THEN <<>>
    ELSE LET res == load_vsm_file(files[i])
         IN  (IF res.error_message # "" THEN <<>>
              ELSE <<[data |-> [path |-> files[i].name, df |-> res.df,
                                thickness_var |-> "100.0",
                                demag_settings |-> default_demag_settings,
                                demag_vars |-> demag_vars_of(default_demag_settings),
                                ms_calc_settings |-> no_ms_calc_settings],
                      color |-> base_colors[((i - 1) % Len(base_colors)) + 1]]>>)
             \o loaded(files, i + 1)

load_files(files) ==
    LET got == loaded(files, 1)
        vd == MapSeq(got, LAMBDA g : g.data)
    IN  /\ files # <<>>
        /\ vsm_data' = vd
        /\ file_color_vars' = MapSeq(got, LAMBDA g : g.color)
        /\ RunUpdateGraph(vd, state)
        /\ UNCHANGED <<disk, state, update_job, after_jobs>>

\* the user opens one file of the disk while no file is loaded
LoadFiles == vsm_data = <<>> /\ \E f \in FilesOn(disk) : load_files(<<f>>)

\* the Tk timer of a scheduled update fires
\* Tk takes a timer that is due off its list and calls its callback
TimerDue ==
    /\ \E job \in after_jobs : after_jobs' = after_jobs \ {job}
    /\ update_job' = update_job

TimerFires ==
    /\ TimerDue
    /\ RunUpdateGraph(vsm_data, state)
    /\ UNCHANGED <<disk, vsm_data, file_color_vars, state>>

\* a write to offset_correction_var (traced: _schedule_update)
WriteOffsetCorrection ==
    \E b \in BOOLEAN :
        /\ state' = [state EXCEPT !.offset_correction_var = b]
        /\ ScheduleUpdate
        /\ UNCHANGED <<disk, vsm_data, file_color_vars, analysis_results,
                       last_run, log_text>>

\* the handler saving the three flags also when an entry does not parse
on_demag_setting_change_save_flags(data, name) ==
    LET v0 == data.demag_vars
        linked == v0.link /\ name \in {"pos_min", "pos_max"} /\ FloatOK(v0[name])
        v1 == IF ~linked THEN v0
              ELSE IF name = "pos_min"
              THEN [v0 EXCEPT !.neg_max = Str(RNeg(Float(v0.pos_min)))]
              ELSE [v0 EXCEPT !.neg_min = Str(RNeg(Float(v0.pos_max)))]
        valid == /\ FloatOK(v1.pos_min) /\ FloatOK(v1.pos_max)
                 /\ FloatOK(v1.neg_min) /\ FloatOK(v1.neg_max)
        settings == [enabled |-> v1.enabled, manual |-> v1.manual,
                     link_ranges |-> v1.link,
                     pos_range |-> <<v1.pos_min, v1.pos_max>>,
                     neg_range |-> <<v1.neg_min, v1.neg_max>>]
    IN  [data |-> IF valid
                  THEN [data EXCEPT !.demag_vars = v1, !.demag_settings = settings]
                  ELSE [data EXCEPT !.demag_vars = v1,
                                    !.demag_settings.enabled = v1.enabled,
                                    !.demag_settings.manual = v1.manual,
                                    !.demag_settings.link_ranges = v1.link],
         schedules |-> IF ~valid THEN 0 ELSE IF linked THEN 2 ELSE 1]

\* the handler mirroring a bound onto the bound of the same side
on_demag_setting_change_same_side(data, name) ==
    LET v0 == data.demag_vars
        linked == v0.link /\ name \in {"pos_min", "pos_max"} /\ FloatOK(v0[name])
        v1 == IF ~linked THEN v0
              ELSE IF name = "pos_min"
              THEN [v0 EXCEPT !.neg_min = Str(RNeg(Float(v0.pos_min)))]
              ELSE [v0 EXCEPT !.neg_max = Str(RNeg(Float(v0.pos_max)))]
        valid == /\ FloatOK(v1.pos_min) /\ FloatOK(v1.pos_max)
                 /\ FloatOK(v1.neg_min) /\ FloatOK(v1.neg_max)
        settings == [enabled |-> v1.enabled, manual |-> v1.manual,
                     link_ranges |-> v1.link,
                     pos_range |-> <<v1.pos_min, v1.pos_max>>,
                     neg_range |-> <<v1.neg_min, v1.neg_max>>]
    IN  [data |-> IF valid
                  THEN [data EXCEPT !.demag_vars = v1, !.demag_settings = settings]
                  ELSE [data EXCEPT !.demag_vars = v1],
         schedules |-> IF ~valid THEN 0 ELSE IF linked THEN 2 ELSE 1]

\* VSMApp._on_demag_setting_change(file_index, var_changed) after the write of
\* val to the UI variable name of file idx.  The mirrored write to a negative
\* bound runs the handler once more (nested), which saves and schedules on
\* its own when the four entries parse.
on_demag_setting_change(data, name) ==
    LET v0 == data.demag_vars
        linked == v0.link /\ name \in {"pos_min", "pos_max"} /\ FloatOK(v0[name])
        v1 == IF ~linked THEN v0
              ELSE IF name = "pos_min"
              THEN [v0 EXCEPT !.neg_max = Str(RNeg(Float(v0.pos_min)))]
              ELSE [v0 EXCEPT !.neg_min = Str(RNeg(Float(v0.pos_max)))]
        valid == /\ FloatOK(v1.pos_min) /\ FloatOK(v1.pos_max)
                 /\ FloatOK(v1.neg_min) /\ FloatOK(v1.neg_max)
        settings == [enabled |-> v1.enabled, manual |-> v1.manual,
                     link_ranges |-> v1.link,
                     pos_range |-> <<v1.pos_min, v1.pos_max>>,
                     neg_range |-> <<v1.neg_min, v1.neg_max>>]
    IN  [data |-> IF valid
                  THEN [data EXCEPT !.demag_vars = v1, !.demag_settings = settings]
                  ELSE [data EXCEPT !.demag_vars = v1],
         schedules |-> IF ~valid THEN 0 ELSE IF linked THEN 2 ELSE 1]

RECURSIVE schedule_update_times(_, _, _)
schedule_update_times(jobs, job, n) ==
    IF n = 0 THEN [after_jobs |-> jobs, update_job |-> job]
    ELSE schedule_update_times(schedule_update(jobs, job).after_jobs,
                               schedule_update(jobs, job).update_job, n - 1)

ScheduleUpdates(n) ==
    /\ after_jobs' = schedule_update_times(after_jobs, update_job, n).after_jobs
    /\ update_job' = schedule_update_times(after_jobs, update_job, n).update_job

write_demag_var(idx, name, val) ==
    LET written == [vsm_data[idx] EXCEPT !.demag_vars[name] = val]
        out == on_demag_setting_change(written, name)
    IN  /\ vsm_data' = [vsm_data EXCEPT ![idx] = out.data]
        /\ ScheduleUpdates(out.schedules)
        /\ UNCHANGED <<disk, file_color_vars, analysis_results, last_run,
                       log_text, state>>

\* the user ticks a check box of the demag panel of a file
WriteDemagFlag ==
    \E idx \in 1..Len(vsm_data), name \in {"enabled", "manual"}, b \in BOOLEAN :
        write_demag_var(idx, name, b)

\* the user types a bound of the positive range of a file
WriteDemagEntry ==
    \E idx \in 1..Len(vsm_data) :
        \/ \E t \in {"0.5", "2.5"} : write_demag_var(idx, "pos_min", t)
        \/ \E t \in {"1.2", "3.5"} : write_demag_var(idx, "pos_max", t)

\* the user types the upper bound of the negative range of a file
WriteDemagNegEntry ==
    \E idx \in 1..Len(vsm_data), t \in {"-0.5", "-1.5"} :
        write_demag_var(idx, "neg_max", t)

\* event_handlers.py 297-315: "OK & save" of the Ms dialog, whose variables
\* hold one choice per file; update_graph runs at once
MsDialogChoices ==
    {[saved |-> TRUE, manual |-> TRUE, link_ranges |-> TRUE,
      pos_range |-> w[1], neg_range |-> w[2]] :
        w \in {<<<<"1.5", "2.0">>, <<"-2.0", "-1.5">>>>,
               <<<<"2.5", "3.5">>, <<"-3.5", "-2.5">>>>,
               <<<<"0.6", "0.7">>, <<"-0.7", "-0.6">>>>,
               <<<<"0.5", "abc">>, <<"-1.2", "-0.5">>>>}}
    \cup {[no_ms_calc_settings EXCEPT !.saved = TRUE]}

save_settings(choice) ==
    LET vd == [i \in 1..Len(vsm_data) |->
                  [vsm_data[i] EXCEPT !.ms_calc_settings = choice[i]]]
    IN  /\ vsm_data' = vd
        /\ RunUpdateGraph(vd, state)
        /\ UNCHANGED <<disk, file_color_vars, state, update_job, after_jobs>>

SaveMsSettings ==
    /\ vsm_data # <<>>
    /\ \E choice \in [1..Len(vsm_data) -> MsDialogChoices] : save_settings(choice)

\* a write to xlim_min_var or xlim_max_var (traced: _schedule_update)
WriteXlim ==
    /\ \/ \E t \in {"", "-3.0"} : state' = [state EXCEPT !.xlim_min_var = t]
       \/ \E t \in {"", "2.0", "-2.0"} : state' = [state EXCEPT !.xlim_max_var = t]
    /\ ScheduleUpdate
    /\ UNCHANGED <<disk, vsm_data, file_color_vars, analysis_results,
                   last_run, log_text>>

\* list.pop(index) and list.insert(index, x) of Python, index counted from 0
list_pop(s, index) ==
    [item |-> s[index + 1],
     rest |-> SubSeq(s, 1, index) \o SubSeq(s, index + 2, Len(s))]

list_insert(s, index, x) ==
    SubSeq(s, 1, index) \o <<x>> \o SubSeq(s, index + 1, Len(s))

\* vsm_app.py 531-588: every file gets its UI variables anew from its saved
\* settings
update_demag_settings_ui(vd) ==
    [i \in 1..Len(vd) |->
        [vd[i] EXCEPT !.demag_vars = demag_vars_of(vd[i].demag_settings)]]

\* a move that leaves the colour list as it is
move_file_up_data_only(vd, colors, index) ==
    IF index > 0
    THEN [vsm_data |-> list_insert(list_pop(vd, index).rest, index - 1,
                                   list_pop(vd, index).item),
          file_color_vars |-> colors, moved |-> TRUE]
    ELSE [vsm_data |-> vd, file_color_vars |-> colors, moved |-> FALSE]

\* event_handlers.py 333-339 and 347-353: the two lists after the move
move_file_up(vd, colors, index) ==
    IF index > 0
    THEN [vsm_data |-> list_insert(list_pop(vd, index).rest, index - 1,
                                   list_pop(vd, index).item),
          file_color_vars |-> list_insert(list_pop(colors, index).rest,
                                          index - 1, list_pop(colors, index).item),
          moved |-> TRUE]
    ELSE [vsm_data |-> vd, file_color_vars |-> colors, moved |-> FALSE]

move_file_down(vd, colors, index) ==
    IF index < Len(vd) - 1
    THEN [vsm_data |-> list_insert(list_pop(vd, index).rest, index + 1,
                                   list_pop(vd, index).item),
          file_color_vars |-> list_insert(list_pop(colors, index).rest,
                                          index + 1, list_pop(colors, index).item),
          moved |-> TRUE]
    ELSE [vsm_data |-> vd, file_color_vars |-> colors, moved |-> FALSE]

\* event_handlers.py 341-345 and 355-359: after a move the panels are
\* rebuilt and update_graph runs at once
move_file(out) ==
    IF out.moved
    THEN /\ vsm_data' = update_demag_settings_ui(out.vsm_data)
         /\ file_color_vars' = out.file_color_vars
         /\ RunUpdateGraph(update_demag_settings_ui(out.vsm_data), state)
         /\ UNCHANGED <<disk, state, update_job, after_jobs>>
    ELSE UNCHANGED vars

\* the user presses the up or the down button of a row of the file list
MoveFileUp ==
    \E index \in 0..(Len(vsm_data) - 1) :
        move_file(move_file_up(vsm_data, file_color_vars, index))

MoveFileDown ==
    \E index \in 0..(Len(vsm_data) - 1) :
        move_file(move_file_down(vsm_data, file_color_vars, index))

\* the user ticks the link check box of a file
WriteDemagLink ==
    \E idx \in 1..Len(vsm_data), b \in BOOLEAN : write_demag_var(idx, "link", b)

\* the user types text that is no number into the lower bound of the
\* positive range
WriteDemagBadEntry ==
    \E idx \in 1..Len(vsm_data) : write_demag_var(idx, "pos_min", "abc")

\* the seven writes with the bounds of the negative range first
first_file_writes_neg_first(first_file_settings) ==
    <<<<"enabled", first_file_settings.enabled>>,
      <<"manual", first_file_settings.manual>>,
      <<"link", first_file_settings.link_ranges>>,
      <<"neg_min", first_file_settings.neg_range[1]>>,
      <<"neg_max", first_file_settings.neg_range[2]>>,
      <<"pos_min", first_file_settings.pos_range[1]>>,
      <<"pos_max", first_file_settings.pos_range[2]>>>>

\* event_handlers.py 390-396: the variables set for a file, in this order
first_file_writes(first_file_settings) ==
    <<<<"enabled", first_file_settings.enabled>>,
      <<"manual", first_file_settings.manual>>,
      <<"link", first_file_settings.link_ranges>>,
      <<"pos_min", first_file_settings.pos_range[1]>>,
      <<"pos_max", first_file_settings.pos_range[2]>>,
      <<"neg_min", first_file_settings.neg_range[1]>>,
      <<"neg_max", first_file_settings.neg_range[2]>>>>

\* the writes k.. of the list, each followed by its trace
RECURSIVE set_demag_vars(_, _, _, _)
set_demag_vars(data, writes, k, schedules) ==
    IF k > Len(writes) THEN [data |-> data, schedules |-> schedules]
    ELSE LET out == on_demag_setting_change(
                        [data EXCEPT !.demag_vars[writes[k][1]] = writes[k][2]],
                        writes[k][1])
         IN  set_demag_vars(out.data, writes, k + 1, schedules + out.schedules)

\* event_handlers.py 381-396 for the files i.. of the list
RECURSIVE apply_to_files(_, _, _, _)
apply_to_files(vd, first_file_settings, i, schedules) ==
    IF i > Len(vd) THEN [vsm_data |-> vd, schedules |-> schedules]
    ELSE LET out == set_demag_vars(
                        [vd[i] EXCEPT !.demag_settings = first_file_settings],
                        first_file_writes(first_file_settings), 1, schedules)
         IN  apply_to_files([vd EXCEPT ![i] = out.data], first_file_settings,
                            i + 1, out.schedules)

apply_first_file_settings_to_all(vd) ==
    IF Len(vd) < 2 THEN [vsm_data |-> vd, schedules |-> 0]
    ELSE apply_to_files(vd, vd[1].demag_settings, 2, 0)

\* the user presses "apply to all"
ApplyFirstFileSettingsToAll ==
    /\ vsm_data' = apply_first_file_settings_to_all(vsm_data).vsm_data
    /\ ScheduleUpdates(apply_first_file_settings_to_all(vsm_data).schedules)
    /\ UNCHANGED <<disk, file_color_vars, analysis_results, last_run,
                   log_text, state>>

\* the user types text that is no number into the upper bound of the
\* positive range, or a number without decimal point into the lower bound
WriteDemagBadUpper ==
    \E idx \in 1..Len(vsm_data) : write_demag_var(idx, "pos_max", "abc")

WriteDemagInteger ==
    \E idx \in 1..Len(vsm_data) : write_demag_var(idx, "pos_min", "3")

\* the user ticks the "enabled" check box of a file
WriteDemagEnabled ==
    \E idx \in 1..Len(vsm_data), b \in BOOLEAN :
        write_demag_var(idx, "enabled", b)

(***************************************************************************)
(* Specifications.  Unless said otherwise the user opens one file and then *)
(* edits one setting at a time, waiting for the scheduled redraw before    *)
(* the next edit.                                                          *)
(***************************************************************************)
Idle == after_jobs = {}

EditOffsetCorrection == Idle /\ WriteOffsetCorrection
EditDemagFlag == Idle /\ WriteDemagFlag
EditDemagEntry == Idle /\ WriteDemagEntry
EditXlim == Idle /\ WriteXlim
EditMsSettings == Idle /\ SaveMsSettings

\* slope estimation and correction: sweep files, the demag panel and the
\* offset check box
InitSweep == Init /\ disk = "sweep"
Next == LoadFiles \/ TimerFires \/ EditOffsetCorrection
        \/ EditDemagFlag \/ EditDemagEntry
Spec == InitSweep /\ [][Next]_vars

\* segmentation: every short file, with and without offset correction
InitShort == Init /\ disk = "short"
NextSeg == LoadFiles \/ TimerFires \/ EditOffsetCorrection
SpecSeg == InitShort /\ [][NextSeg]_vars

\* saturation magnetisation: sweep files, the Ms dialog and the x limits
NextMs == LoadFiles \/ TimerFires \/ EditMsSettings \/ EditXlim
SpecMs == InitSweep /\ [][NextMs]_vars

\* manual windows of both kinds: sweep files, the demag panel and the Ms
\* dialog
NextWin == LoadFiles \/ TimerFires \/ EditDemagFlag \/ EditDemagEntry
           \/ EditMsSettings
SpecWin == InitSweep /\ [][NextWin]_vars

\* a write to area_var (traced: _schedule_update)
WriteArea ==
    /\ \E t \in {"1.0", "2.0", "abc"} : state' = [state EXCEPT !.area_var = t]
    /\ ScheduleUpdate
    /\ UNCHANGED <<disk, vsm_data, file_color_vars, analysis_results,
                   last_run, log_text>>

EditArea == Idle /\ WriteArea

\* a file without the two columns, as load_vsm_file rejects it
NoColumnsFile ==
    [name |-> "other.VSM", cols |-> FALSE, read |-> Readable, rows |-> <<<<Oe(1), Emu(1)>>>>]

\* the user opens one file again, whatever is loaded: a sweep without a
\* positive tail, or the file without the columns
ReloadFiles ==
    /\ Idle
    /\ \E f \in {g \in SweepFiles : g.rows[1][2] = Emu(2)} \cup {NoColumnsFile} :
           load_files(<<f>>)

\* repeated invocations: files are opened again and again and the area is
\* edited, also to a text that is no number
NextRe == ReloadFiles \/ TimerFires \/ EditArea
SpecRe == InitSweep /\ [][NextRe]_vars

\* VSMApp._on_thickness_change after a write to the thickness entry of file
\* idx: the value is in the variable already, the update is scheduled
WriteThickness ==
    /\ \E idx \in 1..Len(vsm_data), t \in {"100.0", "abc"} :
           vsm_data' = [vsm_data EXCEPT ![idx].thickness_var = t]
    /\ ScheduleUpdate
    /\ UNCHANGED <<disk, file_color_vars, analysis_results, last_run,
                   log_text, state>>

EditThickness == Idle /\ WriteThickness

\* rows of the files opened together: no row at all, a first row without
\* moment followed by a descent only, a small loop, and a small loop of
\* constant negative moment
BatchRows ==
    {<<>>,
     <<<<Oe(1), NULL>>, <<Oe(1), Emu(1)>>, <<Oe(-1), Emu(-1)>>>>,
     <<<<Oe(1), Emu(1)>>, <<Oe(-1), Emu(-1)>>, <<Oe(1), Emu(1)>>>>,
     <<<<Oe(1), Emu(-1)>>, <<Oe(-1), Emu(-1)>>, <<Oe(1), Emu(-1)>>>>}

BatchNames == <<"a.VSM", "b.VSM", "c.VSM", "d.VSM", "e.VSM">>

\* the user opens 2 to MaxBatch files together
LoadBatch ==
    /\ vsm_data = <<>>
    /\ \E n \in 2..MaxBatch : \E rows \in [1..n -> BatchRows] :
           load_files([i \in 1..n |->
                          [name |-> BatchNames[i], cols |-> TRUE, read |-> Readable, rows |-> rows[i]]])

\* batches: several files opened together, some of which raise
NextBatch == LoadBatch \/ TimerFires \/ EditThickness \/ EditOffsetCorrection
SpecBatch == InitShort /\ [][NextBatch]_vars

\* automatic segments: ramps of 5 to 4 * MaxHalf + 1 samples
InitRamp == Init /\ disk = "ramp"
NextAuto == LoadFiles \/ TimerFires \/ EditOffsetCorrection \/ EditDemagFlag
SpecAuto == InitRamp /\ [][NextAuto]_vars

\* manual slope windows set side by side
EditDemagNegEntry == Idle /\ WriteDemagNegEntry
NextMan == LoadFiles \/ TimerFires \/ EditDemagFlag \/ EditDemagEntry
           \/ EditDemagNegEntry
SpecMan == InitSweep /\ [][NextMan]_vars

\* synthetic hysteresis loops in both sweep directions
InitLoop == Init /\ disk = "loop"
NextLoop == LoadFiles \/ TimerFires \/ EditOffsetCorrection \/ EditDemagFlag
SpecLoop == InitLoop /\ [][NextLoop]_vars

\* find_header_row on its own: disk holds the text file, last_run the call
\* made on it and what it returned, log_text what it printed
InitHeader ==
    /\ disk \in HeaderFiles
    /\ vsm_data = <<>> /\ file_color_vars = <<>> /\ analysis_results = <<>>
    /\ last_run = <<>> /\ log_text = {}
    /\ state = [area_var |-> "1.0", offset_correction_var |-> TRUE,
                xlim_min_var |-> "", xlim_max_var |-> ""]
    /\ update_job = "none" /\ after_jobs = {}

FindHeaderRow ==
    /\ last_run = <<>>
    /\ last_run' = <<[file |-> disk, header_row |-> find_header_row(disk).row]>>
    /\ log_text' = find_header_row(disk).msgs
    /\ UNCHANGED <<disk, vsm_data, file_color_vars, analysis_results, state,
                   update_job, after_jobs>>

NextHeader == FindHeaderRow
SpecHeader == InitHeader /\ [][NextHeader]_vars

\* parse_metadata on its own: disk holds the text file, last_run the call
\* made on it and the dict it returned
InitMeta ==
    /\ disk \in MetaFiles
    /\ vsm_data = <<>> /\ file_color_vars = <<>> /\ analysis_results = <<>>
    /\ last_run = <<>> /\ log_text = {}
    /\ state = [area_var |-> "1.0", offset_correction_var |-> TRUE,
                xlim_min_var |-> "", xlim_max_var |-> ""]
    /\ update_job = "none" /\ after_jobs = {}

ParseMetadata ==
    /\ last_run = <<>>
    /\ last_run' = <<[file |-> disk, metadata |-> parse_metadata(disk)]>>
    /\ UNCHANGED <<disk, vsm_data, file_color_vars, analysis_results, log_text,
                   state, update_job, after_jobs>>

NextMeta == ParseMetadata
SpecMeta == InitMeta /\ [][NextMeta]_vars

\* load_vsm_file applied to one file
InitLoad ==
    /\ disk \in ShortFiles \cup UnreadableFiles
    /\ vsm_data = <<>> /\ file_color_vars = <<>> /\ analysis_results = <<>>
    /\ last_run = <<>> /\ log_text = {}
    /\ state = [area_var |-> "1.0", offset_correction_var |-> TRUE,
                xlim_min_var |-> "", xlim_max_var |-> ""]
    /\ update_job = "none" /\ after_jobs = {}

LoadVsmFile ==
    /\ last_run = <<>>
    /\ last_run' = <<[file |-> disk, returned |-> load_vsm_file(disk)]>>
    /\ UNCHANGED <<disk, vsm_data, file_color_vars, analysis_results, log_text,
                   state, update_job, after_jobs>>

NextLoad == LoadVsmFile
SpecLoad == InitLoad /\ [][NextLoad]_vars

\* debounce: the writes to the offset flag and to the bounds of the demag
\* panel arrive at any time, also while a timer is pending
NextDebounce == LoadFiles \/ TimerFires \/ WriteOffsetCorrection
                \/ WriteDemagEntry
SpecDebounce == InitSweep /\ [][NextDebounce]_vars

\* Tk's event loop runs the callback of a timer that stays scheduled; within
\* NextDebounce the steps of TimerDue are those of TimerFires
SpecDebounceFair == SpecDebounce /\ WF_<<after_jobs, update_job>>(TimerDue)

\* the file list: 2 to MaxList files opened together, some without the two
\* columns, and moved up and down
ListRows ==
    {<<<<Oe(1), Emu(1)>>>>,
     <<<<Oe(1), NULL>>, <<Oe(1), Emu(1)>>, <<Oe(-1), Emu(-1)>>>>}

LoadList ==
    /\ vsm_data = <<>>
    /\ \E n \in 2..MaxList :
       \E cols \in [1..n -> BOOLEAN], rows \in [1..n -> ListRows] :
           load_files([i \in 1..n |->
                          [name |-> BatchNames[i], cols |-> cols[i],
                           read |-> Readable, rows |-> rows[i]]])

NextList == LoadList \/ MoveFileUp \/ MoveFileDown
SpecList == InitShort /\ [][NextList]_vars

\* two files opened together, their link boxes and bounds edited one write
\* at a time, and the settings of the first applied to both
LoadPair ==
    /\ vsm_data = <<>>
    /\ \E rows \in ListRows :
           load_files([i \in 1..2 |->
                          [name |-> BatchNames[i], cols |-> TRUE,
                           read |-> Readable, rows |-> rows]])

EditDemagLink == Idle /\ WriteDemagLink
EditDemagBadEntry == Idle /\ WriteDemagBadEntry
ApplyToAll == Idle /\ ApplyFirstFileSettingsToAll

NextApply == LoadPair \/ TimerFires \/ EditDemagLink \/ EditDemagBadEntry
             \/ EditDemagNegEntry \/ ApplyToAll
SpecApply == InitShort /\ [][NextApply]_vars

\* the demag panel of one file: its check boxes and the bounds of its
\* positive range, one write at a time
LoadOne ==
    /\ vsm_data = <<>>
    /\ load_files(<<[name |-> BatchNames[1], cols |-> TRUE, read |-> Readable,
                     rows |-> <<<<Oe(1), Emu(1)>>>>]>>)

EditDemagBadUpper == Idle /\ WriteDemagBadUpper
EditDemagInteger == Idle /\ WriteDemagInteger
EditDemagEnabled == Idle /\ WriteDemagEnabled

NextDemag == LoadOne \/ TimerFires \/ EditDemagEnabled \/ EditDemagLink
             \/ EditDemagEntry \/ EditDemagBadEntry \/ EditDemagBadUpper
             \/ EditDemagInteger
SpecDemag == InitShort /\ [][NextDemag]_vars

(***************************************************************************)
(* Claims                                                                  *)
(***************************************************************************)
\* the files of the last analysis pass, and those that reached the append
Runs == {last_run[i] : i \in 1..Len(last_run)}
Analysed == {r \in Runs : r.error = ""}

FieldOf(df) == [i \in 1..Len(df) |-> df[i].H]

\* position (1-based) of the first least / first greatest element of s[from..]
PosOfMin(s, from) ==
    CHOOSE i \in from..Len(s) :
        /\ \A j \in from..Len(s) : RLe(s[i], s[j])
        /\ \A j \in from..(i - 1) : RLt(s[i], s[j])
PosOfMax(s, from) ==
    CHOOSE i \in from..Len(s) :
        /\ \A j \in from..Len(s) : RGe(s[i], s[j])
        /\ \A j \in from..(i - 1) : RGt(s[i], s[j])

SingleMinimum(s) == Cardinality({i \in 1..Len(s) : s[i] = RMinSeq(s)}) = 1

\* C1: the samples kept for the analysis are exactly those from the first up
\* to the maximum field among the samples from the global field minimum on;
\* everything after that tail maximum is discarded.
C1_TruncationAtTailMaximum ==
    \A r \in Analysed :
        LET H == FieldOf(r.data.df)
            iMax2 == PosOfMax(H, PosOfMin(H, 1))
        IN  r.df_loop = SubSeq(r.data.df, 1, iMax2)

\* C2: for a loaded sample set with a single field minimum, the two branches
\* share exactly the sample at the minimum: Descending is the working set up
\* to and including it, Ascending the working set from it on.
C2_BranchesShareTheMinimum ==
    \A r \in Analysed :
        SingleMinimum(FieldOf(r.data.df)) =>
            LET iMin == PosOfMin(r.H_raw, 1)
                n == Len(r.H_raw)
            IN  /\ r.H_down = SubSeq(r.H_raw, 1, iMin)
                /\ r.M_down = SubSeq(r.M_final, 1, iMin)
                /\ r.H_up = SubSeq(r.H_raw, iMin, n)
                /\ r.M_up = SubSeq(r.M_final, iMin, n)

\* C3: a sweep whose field minimum is its last sample (no return sweep) fails
\* with the incomplete-loop error and yields no result entry.
C3_NoReturnSweepFails ==
    \A r \in Runs :
        LET H == FieldOf(r.data.df)
        IN  (H # <<>> /\ PosOfMin(H, 1) = Len(H)) =>
                /\ r.error = "incomplete_loop"
                /\ analysis_results = <<>>

\* sum and mean of s over the positions in idxs
SumOver(s, idxs, i) ==
    RSum([k \in 1..(Len(s) - i + 1) |->
             IF (k + i - 1) \in idxs THEN s[k + i - 1] ELSE RZero])

MeanOver(s, idxs) ==
    IF idxs = {} THEN RZero ELSE RDiv(SumOver(s, idxs, 1), RInt(Cardinality(idxs)))

AbsSeq(s) == [i \in 1..Len(s) |-> RAbs(s[i])]

\* positions of the automatic 90 % sets and of an inclusive window
Above90(H) == {i \in 1..Len(H) : RGt(H[i], RMul(Rat(9, 10), RMaxSeq(H)))}
Below90(H) == {i \in 1..Len(H) : RLt(H[i], RMul(Rat(9, 10), RMinSeq(H)))}
InWindow(H, lo, hi) == {i \in 1..Len(H) : RLe(lo, H[i]) /\ RLe(H[i], hi)}

\* average if both are non-zero, else the non-zero one, else 0
Combined(p, n) ==
    IF p # RZero /\ n # RZero THEN RDiv(RAdd(p, n), RInt(2))
    ELSE IF p # RZero THEN p
    ELSE IF n # RZero THEN n
    ELSE RZero

DemagEnabled(r) == r.data.demag_settings.enabled
DemagManual(r) == r.data.demag_settings.enabled /\ r.data.demag_settings.manual

\* C4: in auto and in manual mode the final slope is the average of the two
\* side slopes when both are non-zero, the non-zero one when exactly one is,
\* and 0 when both are zero.
C4_SlopeCombination ==
    \A r \in Analysed :
        DemagEnabled(r) => r.slope = Combined(r.slope_pos, r.slope_neg)

\* the offset computed from the moments after the slope subtraction
OffsetAfterSlope(r) ==
    LET corrected == [i \in 1..Len(r.H_raw) |->
                         RSub(r.M_raw[i], RMul(r.H_raw[i], r.slope))]
    IN  RDiv(RAdd(MeanOver(corrected, Above90(r.H_raw)),
                  MeanOver(corrected, Below90(r.H_raw))), RInt(2))

\* the offset the raw moments would give
OffsetOfRaw(r) ==
    RDiv(RAdd(MeanOver(r.M_raw, Above90(r.H_raw)),
              MeanOver(r.M_raw, Below90(r.H_raw))), RInt(2))

\* C5: final moment = raw moment - field * slope - offset at every point, the
\* offset being computed from the slope-corrected moments when offset
\* correction is on and 0 when it is off; slope is 0 when the diamagnetic
\* correction is off.
C5_SlopeThenOffset ==
    \A r \in Analysed :
        LET off == IF r.offset_correction THEN OffsetAfterSlope(r) ELSE RZero
        IN  /\ \A i \in 1..Len(r.H_raw) :
                   r.M_final[i] =
                       RSub(RSub(r.M_raw[i], RMul(r.H_raw[i], r.slope)), off)
            /\ ~DemagEnabled(r) => r.slope = RZero

\* a sweep where the order matters: offset correction on, a non-zero slope,
\* and an offset that differs from the one the raw moments give
C5_Witness ==
    \E r \in Analysed :
        /\ r.offset_correction
        /\ r.slope # RZero
        /\ r.offset = OffsetAfterSlope(r)
        /\ r.offset # OffsetOfRaw(r)

\* C6: squareness is null whenever Ms is null or Ms <= 0; when it is not null,
\* Mr is not null, Ms > 0 and squareness * Ms = Mr.
C6_SquarenessGuard ==
    \A r \in Analysed :
        LET fr == r.file_results
        IN  /\ fr \in {analysis_results[i] : i \in 1..Len(analysis_results)}
            /\ (fr.Ms = NULL \/ RLe(fr.Ms, RZero)) => fr.squareness = NULL
            /\ fr.squareness # NULL =>
                   /\ fr.Mr # NULL
                   /\ fr.Ms # NULL
                   /\ RGt(fr.Ms, RZero)
                   /\ RMul(fr.squareness, fr.Ms) = fr.Mr

\* a file with a remanence and a negative Ms, whose squareness is null
C6_Witness ==
    \E r \in Analysed :
        /\ r.file_results.Mr # NULL
        /\ RLt(r.file_results.Ms, RZero)
        /\ r.file_results.squareness = NULL

\* the manual Ms windows in effect for r: set in the dialog and parsed
MsManual(r) ==
    /\ r.data.ms_calc_settings.saved
    /\ r.data.ms_calc_settings.manual
    /\ r.ms_pos_range # NULL
    /\ r.ms_neg_range # NULL

MsPosWindow(r) == InWindow(r.H_raw, Float(r.data.ms_calc_settings.pos_range[1]),
                           Float(r.data.ms_calc_settings.pos_range[2]))
MsNegWindow(r) == InWindow(r.H_raw, Float(r.data.ms_calc_settings.neg_range[1]),
                           Float(r.data.ms_calc_settings.neg_range[2]))

\* C7 as stated: in manual Ms mode a side with 0 or 1 samples in its window
\* gets a warning and the estimate 0; a side with 2 or more samples gets the
\* mean moment (of the absolute values on the negative side).
C7_FewSamplesGiveZero ==
    \A r \in Analysed :
        MsManual(r) =>
            /\ IF Cardinality(MsPosWindow(r)) < 2
               THEN /\ <<"ms_few_points", "pos">> \in r.msgs
                    /\ r.Ms_results.pos = RZero
               ELSE r.Ms_results.pos = MeanOver(r.M_final, MsPosWindow(r))
            /\ IF Cardinality(MsNegWindow(r)) < 2
               THEN /\ <<"ms_few_points", "neg">> \in r.msgs
                    /\ r.Ms_results.neg = RZero
               ELSE r.Ms_results.neg = MeanOver(AbsSeq(r.M_final), MsNegWindow(r))

\* C7 amended: a side with 0 or 1 samples gets a warning, a side with 2 or
\* more none; the estimate is 0 only for an empty window, and for 1 or more
\* samples it is the mean moment over the window (of the absolute values on
\* the negative side), which for 1 sample is that sample's moment.
C7_EmptyWindowGivesZero ==
    \A r \in Analysed :
        MsManual(r) =>
            /\ <<"ms_few_points", "pos">> \in r.msgs <=> Cardinality(MsPosWindow(r)) < 2
            /\ <<"ms_few_points", "neg">> \in r.msgs <=> Cardinality(MsNegWindow(r)) < 2
            /\ r.Ms_results.pos = MeanOver(r.M_final, MsPosWindow(r))
            /\ r.Ms_results.neg = MeanOver(AbsSeq(r.M_final), MsNegWindow(r))
            /\ MsPosWindow(r) = {} => r.Ms_results.pos = RZero
            /\ MsNegWindow(r) = {} => r.Ms_results.neg = RZero

\* manual Ms windows with no sample on the positive side and a single sample,
\* of non-zero moment, on the negative side
C7_Witness ==
    \E r \in Analysed :
        /\ MsManual(r)
        /\ MsPosWindow(r) = {}
        /\ Cardinality(MsNegWindow(r)) = 1
        /\ r.Ms_results.neg # RZero
        /\ <<"ms_few_points", "neg">> \in r.msgs

\* the automatic estimate of Ms on the final moments of r
AutoMs(r) ==
    Combined(MeanOver(r.M_final, Above90(r.H_raw)),
             MeanOver(AbsSeq(r.M_final), Below90(r.H_raw)))

\* the x limits of the plot select the Ms windows
PlotLimitsUsed(r) ==
    /\ r.params.xlim_min # NULL
    /\ r.params.xlim_max # NULL
    /\ RGt(r.params.xlim_max, RZero)
    /\ RLt(r.params.xlim_min, r.params.xlim_max)

\* Ms over the outer tenths of the plotted field range
PlotLimitsMs(r) ==
    LET lo == r.params.xlim_min
        hi == r.params.xlim_max
        tenth == RDiv(RSub(hi, lo), RInt(10))
    IN  Combined(MeanOver(r.M_final, InWindow(r.H_raw, RSub(hi, tenth), hi)),
                 MeanOver(AbsSeq(r.M_final), InWindow(r.H_raw, lo, RAdd(lo, tenth))))

MsManualEnabled(r) == r.data.ms_calc_settings.saved /\ r.data.ms_calc_settings.manual

R2Fit(H, M, idxs) ==
    LET mx == MeanOver(H, idxs)
        my == MeanOver(M, idxs)
        dx == [i \in 1..Len(H) |-> RSub(H[i], mx)]
        dy == [i \in 1..Len(M) |-> RSub(M[i], my)]
        Sxx == SumOver(RProd(dx, dx), idxs, 1)
        Syy == SumOver(RProd(dy, dy), idxs, 1)
        Sxy == SumOver(RProd(dx, dy), idxs, 1)
    IN  IF Cardinality(idxs) < 2 \/ Sxx = RZero \/ Syy = RZero THEN RZero
        ELSE RDiv(RMul(Sxy, Sxy), RMul(Sxx, Syy))

\* positions of the k samples of highest / lowest field
Highest(H, k) == {i \in 1..Len(H) :
                     Cardinality({j \in 1..Len(H) : RGt(H[j], H[i])}) < k}
Lowest(H, k) == {i \in 1..Len(H) :
                    Cardinality({j \in 1..Len(H) : RLt(H[j], H[i])}) < k}

DemagRangesValid(r) ==
    /\ FloatOK(r.data.demag_settings.pos_range[1])
    /\ FloatOK(r.data.demag_settings.pos_range[2])
    /\ FloatOK(r.data.demag_settings.neg_range[1])
    /\ FloatOK(r.data.demag_settings.neg_range[2])

\* the segments the two fits of r are made over: the manual windows when the
\* settings say manual, else the segment_size samples at either end of the
\* field range (none when there are fewer than two segments of samples)
PosSegment(r) ==
    IF r.data.demag_settings.manual
    THEN IF DemagRangesValid(r)
         THEN InWindow(r.H_raw, Float(r.data.demag_settings.pos_range[1]),
                       Float(r.data.demag_settings.pos_range[2]))
         ELSE {}
    ELSE IF Len(r.H_raw) < 2 * segment_size(Len(r.H_raw)) THEN {}
    ELSE Highest(r.H_raw, segment_size(Len(r.H_raw)))
NegSegment(r) ==
    IF r.data.demag_settings.manual
    THEN IF DemagRangesValid(r)
         THEN InWindow(r.H_raw, Float(r.data.demag_settings.neg_range[1]),
                       Float(r.data.demag_settings.neg_range[2]))
         ELSE {}
    ELSE IF Len(r.H_raw) < 2 * segment_size(Len(r.H_raw)) THEN {}
    ELSE Lowest(r.H_raw, segment_size(Len(r.H_raw)))

\* C9 as stated: for every analysed file r2_pos and r2_neg are the R^2 of the
\* regressions over the two segments, also when the correction is disabled
\* and also when the combined slope is 0.
C9_R2AlwaysReported ==
    \A r \in Analysed :
        /\ r.r2_pos = R2Fit(r.H_raw, r.M_raw, PosSegment(r))
        /\ r.r2_neg = R2Fit(r.H_raw, r.M_raw, NegSegment(r))

\* C9 amended: with the correction enabled r2_pos and r2_neg are the R^2 of
\* the regressions over the two segments, also when the combined slope is 0
\* (0 for a side that has no fitted line); with the correction disabled no
\* regression is made and both are 0.
C9_R2WhenEnabled ==
    \A r \in Analysed :
        IF DemagEnabled(r)
        THEN /\ r.r2_pos = R2Fit(r.H_raw, r.M_raw, PosSegment(r))
             /\ r.r2_neg = R2Fit(r.H_raw, r.M_raw, NegSegment(r))
        ELSE r.r2_pos = RZero /\ r.r2_neg = RZero

\* correction enabled, the two side slopes cancel to a combined slope of 0,
\* and the R^2 of both fits is reported non-zero
C9_Witness ==
    \E r \in Analysed :
        /\ DemagEnabled(r)
        /\ r.slope = RZero
        /\ r.slope_pos # RZero
        /\ r.r2_pos # RZero
        /\ r.r2_pos = R2Fit(r.H_raw, r.M_raw, PosSegment(r))
        /\ r.r2_neg # RZero

\* the field column of the file of r, in tesla
FileField(r) == [i \in 1..Len(r.data.df) |-> RMul(r.data.df[i].H, Rat(1, 10000))]

\* manual windows that hold no sample of the file
EmptySlopeWindow(r, side) ==
    /\ DemagManual(r)
    /\ DemagRangesValid(r)
    /\ LET rng == IF side = "pos" THEN r.data.demag_settings.pos_range
                  ELSE r.data.demag_settings.neg_range
       IN  InWindow(FileField(r), Float(rng[1]), Float(rng[2])) = {}
EmptyMsWindow(r, side) ==
    /\ MsManualEnabled(r)
    /\ \A k \in 1..2 : /\ FloatOK(r.data.ms_calc_settings.pos_range[k])
                       /\ FloatOK(r.data.ms_calc_settings.neg_range[k])
    /\ LET rng == IF side = "pos" THEN r.data.ms_calc_settings.pos_range
                  ELSE r.data.ms_calc_settings.neg_range
       IN  InWindow(FileField(r), Float(rng[1]), Float(rng[2])) = {}

\* C10: a manual slope window or manual Ms window without samples does not
\* raise: that side's slope, respectively that side's Ms, is 0, a message is
\* written to the log, and the file of the sweep gets its result entry.
C10_EmptyWindowNeverRaises ==
    \A i \in 1..Len(last_run) :
        LET r == last_run[i]
            entry == /\ r.error = ""
                     /\ \E k \in 1..Len(analysis_results) :
                            analysis_results[k] = r.file_results
        IN  /\ EmptySlopeWindow(r, "pos") =>
                /\ entry
                /\ r.slope_pos = RZero
                /\ <<i, "slope_lt2_points", "pos">> \in log_text
            /\ EmptySlopeWindow(r, "neg") =>
                /\ entry
                /\ r.slope_neg = RZero
                /\ <<i, "slope_lt2_points", "neg">> \in log_text
            /\ EmptyMsWindow(r, "pos") =>
                /\ entry
                /\ r.Ms_results.pos = RZero
                /\ <<i, "ms_few_points", "pos">> \in log_text
            /\ EmptyMsWindow(r, "neg") =>
                /\ entry
                /\ r.Ms_results.neg = RZero
                /\ <<i, "ms_few_points", "neg">> \in log_text

\* a file analysed with an empty manual slope window and an empty manual Ms
\* window on the positive side
C10_Witness ==
    \E i \in 1..Len(last_run) :
        /\ EmptySlopeWindow(last_run[i], "pos")
        /\ EmptyMsWindow(last_run[i], "pos")
        /\ last_run[i].error = ""
        /\ <<i, "slope_lt2_points", "pos">> \in log_text
        /\ <<i, "ms_few_points", "pos">> \in log_text

\* the entries a full recomputation from the current inputs gives: one per
\* file of vsm_data that does not raise, and none without valid parameters
FreshResults ==
    IF ~params_ok(state) THEN <<>>
    ELSE LET run == [i \in 1..Len(vsm_data) |->
                        process_file(vsm_data[i], params_of(state),
                                     state.offset_correction_var)]
         IN  MapSeq(Pick(run, [i \in 1..Len(run) |-> run[i].error = ""]),
                    LAMBDA r : r.file_results)

\* C11: once update_graph has returned (no update is pending), the result
\* list is the one recomputed in full from the current files and parameters,
\* also when the parameters are invalid or no file is loaded.
C11_ResultsRecomputed == Idle => analysis_results = FreshResults

\* the positions in analysis_results of the entries named after file i
EntriesOf(i) ==
    {k \in 1..Len(analysis_results) : analysis_results[k].filename = vsm_data[i].path}

\* the pass over file i raised
Raised(i) == last_run[i].error # ""

\* C12: after a pass over a batch, a file whose processing raised has no
\* entry and its error is in the log; every other file has exactly one entry,
\* the one its own data gives, and the entries are in list order.
C12_FaultIsolation ==
    (Idle /\ vsm_data # <<>>) =>
        /\ Len(last_run) = Len(vsm_data)
        /\ \A i \in 1..Len(vsm_data) :
               IF Raised(i)
               THEN /\ EntriesOf(i) = {}
                    /\ <<i, last_run[i].error, "both">> \in log_text
               ELSE /\ Cardinality(EntriesOf(i)) = 1
                    /\ \A k \in EntriesOf(i) :
                           analysis_results[k] = last_run[i].file_results
        /\ \A i, j \in 1..Len(vsm_data) :
               (i < j /\ ~Raised(i) /\ ~Raised(j)) =>
                   \A k \in EntriesOf(i), l \in EntriesOf(j) : k < l
        /\ Len(analysis_results) =
               Cardinality({i \in 1..Len(vsm_data) : ~Raised(i)})

\* a batch whose first file raised and has no entry, and whose second file
\* has an entry with partial results (a null squareness)
C12_Witness ==
    /\ Idle
    /\ Len(vsm_data) >= 2
    /\ Raised(1)
    /\ EntriesOf(1) = {}
    /\ ~Raised(2)
    /\ \E k \in EntriesOf(2) : /\ analysis_results[k].squareness = NULL
                               /\ analysis_results[k].Mr # NULL

\* C13 (its case): np.interp raises only on an empty branch, and a file that
\* passed the truncation has two non-empty branches, so no pass over a file
\* ends with a null Mr or a null Hc.
C13_BranchesNeverEmpty ==
    \A r \in Analysed :
        /\ r.H_down # <<>> /\ r.H_up # <<>>
        /\ r.file_results.Mr # NULL
        /\ r.file_results.Hc_Oe # NULL

\* C14: when a pass follows a pass over the same file with the same settings
\* and parameters and only the offset correction toggled, the slope and both
\* R^2 of the file are the same in the two passes.
C14_SlopeIgnoresOffset ==
    [][\A i \in 1..Len(last_run) :
           (/\ i <= Len(last_run')
            /\ last_run[i].error = "" /\ last_run'[i].error = ""
            /\ last_run'[i].data = last_run[i].data
            /\ last_run'[i].params = last_run[i].params
            /\ last_run'[i].offset_correction # last_run[i].offset_correction)
           => /\ last_run'[i].slope = last_run[i].slope
              /\ last_run'[i].r2_pos = last_run[i].r2_pos
              /\ last_run'[i].r2_neg = last_run[i].r2_neg]_vars

\* a pass with the offset correction disabled that estimated a non-zero
\* slope and subtracted no offset
C14_Witness ==
    /\ Idle
    /\ \E r \in Analysed : /\ ~r.offset_correction
                           /\ r.offset = NULL
                           /\ r.slope # RZero
                           /\ r.r2_pos # RZero

\* the inputs of the last pass are the loaded files, the parameters and the
\* offset flag as they are now
SameInputsAsLastPass ==
    /\ Len(last_run) = Len(vsm_data)
    /\ \A i \in 1..Len(vsm_data) :
           /\ last_run[i].data = vsm_data[i]
           /\ last_run[i].params = params_of(state)
           /\ last_run[i].offset_correction = state.offset_correction_var

SlopeFit(H, M, idxs) ==
    LET mx == MeanOver(H, idxs)
        my == MeanOver(M, idxs)
        dx == [i \in 1..Len(H) |-> RSub(H[i], mx)]
        dy == [i \in 1..Len(M) |-> RSub(M[i], my)]
        Sxx == SumOver(RProd(dx, dx), idxs, 1)
        Sxy == SumOver(RProd(dx, dy), idxs, 1)
    IN  IF Cardinality(idxs) < 2 \/ Sxx = RZero THEN RZero ELSE RDiv(Sxy, Sxx)

\* max(5, floor(0.15 n))
AutoSegmentSize(n) ==
    LET f == CHOOSE q \in 0..n : 100 * q <= 15 * n /\ 15 * n < 100 * (q + 1)
    IN  IF f > 5 THEN f ELSE 5

AutoSkipped(r) == <<"slope_auto_skipped", "both">> \in r.msgs

\* C16: in automatic mode the segment size is max(5, floor(0.15 n)); with
\* n < 2 * size no line is fitted, slope and both R^2 are 0 and the warning
\* is given; otherwise the size samples of highest field and the size samples
\* of lowest field are each fitted on their own.
C16_AutoSegments ==
    \A r \in Analysed :
        (DemagEnabled(r) /\ ~DemagManual(r)) =>
            LET n == Len(r.H_raw)
                size == AutoSegmentSize(n)
            IN  IF n < 2 * size
                THEN /\ r.slope = RZero /\ r.r2_pos = RZero /\ r.r2_neg = RZero
                     /\ AutoSkipped(r)
                ELSE /\ ~AutoSkipped(r)
                     /\ Cardinality(Highest(r.H_raw, size)) = size
                     /\ Cardinality(Lowest(r.H_raw, size)) = size
                     /\ r.slope_pos = SlopeFit(r.H_raw, r.M_raw, Highest(r.H_raw, size))
                     /\ r.r2_pos = R2Fit(r.H_raw, r.M_raw, Highest(r.H_raw, size))
                     /\ r.slope_neg = SlopeFit(r.H_raw, r.M_raw, Lowest(r.H_raw, size))
                     /\ r.r2_neg = R2Fit(r.H_raw, r.M_raw, Lowest(r.H_raw, size))

\* a ramp of 40 samples or more, fitted over segments of more than 5 samples,
\* whose two sides give different slopes
C16_Witness ==
    \E r \in Analysed :
        /\ DemagEnabled(r) /\ ~DemagManual(r)
        /\ Len(r.H_raw) >= 40
        /\ AutoSegmentSize(Len(r.H_raw)) > 5
        /\ ~AutoSkipped(r)
        /\ r.slope_pos # r.slope_neg
        /\ r.slope_pos = SlopeFit(r.H_raw, r.M_raw,
                                  Highest(r.H_raw, AutoSegmentSize(Len(r.H_raw))))

\* the samples of r in the manual slope window of a side
ManualWindow(r, side) ==
    LET rng == IF side = "pos" THEN r.data.demag_settings.pos_range
               ELSE r.data.demag_settings.neg_range
    IN  InWindow(r.H_raw, Float(rng[1]), Float(rng[2]))

SideSlope(r, side) == IF side = "pos" THEN r.slope_pos ELSE r.slope_neg
SideR2(r, side) == IF side = "pos" THEN r.r2_pos ELSE r.r2_neg

\* all samples at idxs have the same field: no line can be fitted
SameField(H, idxs) == \A i, j \in idxs : H[i] = H[j]

\* C17: in manual mode, a side with fewer than 2 samples in its window has
\* slope 0 and an error in the log; a side with 2 to 4 samples is fitted
\* without failure, with the few-points warning; and each side's slope and
\* R^2 are those of the fit over its own window, whatever the other side did,
\* the returned slope combining the two.
C17_ManualSidesIndependent ==
    \A r \in Analysed :
        (DemagManual(r) /\ DemagRangesValid(r)) =>
            /\ r.slope = Combined(r.slope_pos, r.slope_neg)
            /\ \A side \in {"pos", "neg"} :
                   LET W == ManualWindow(r, side)
                   IN  /\ Cardinality(W) < 2 =>
                              /\ SideSlope(r, side) = RZero
                              /\ <<"slope_lt2_points", side>> \in r.msgs
                       /\ Cardinality(W) \in 2..4 =>
                              /\ <<"slope_few_points", side>> \in r.msgs
                              /\ <<"slope_fit_failed", side>> \notin r.msgs
                       /\ Cardinality(W) >= 2 =>
                              /\ <<"slope_lt2_points", side>> \notin r.msgs
                              /\ SideSlope(r, side) = SlopeFit(r.H_raw, r.M_raw, W)
                              /\ SideR2(r, side) = R2Fit(r.H_raw, r.M_raw, W)

\* C17 amended: as C17, except that a side with 2 or more samples is fitted
\* without failure only when its samples do not all have the same field; when
\* they do, the fit fails: slope and R^2 0 for that side only, with a
\* fit-failed warning (and the few-points warning for 2 to 4 samples).
C17_ManualSidesFitWhenFieldsDiffer ==
    \A r \in Analysed :
        (DemagManual(r) /\ DemagRangesValid(r)) =>
            /\ r.slope = Combined(r.slope_pos, r.slope_neg)
            /\ \A side \in {"pos", "neg"} :
                   LET W == ManualWindow(r, side)
                   IN  /\ Cardinality(W) < 2 =>
                              /\ SideSlope(r, side) = RZero
                              /\ <<"slope_lt2_points", side>> \in r.msgs
                       /\ Cardinality(W) \in 2..4 =>
                              <<"slope_few_points", side>> \in r.msgs
                       /\ Cardinality(W) >= 2 =>
                              /\ <<"slope_lt2_points", side>> \notin r.msgs
                              /\ <<"slope_fit_failed", side>> \in r.msgs
                                     <=> SameField(r.H_raw, W)
                              /\ SameField(r.H_raw, W) =>
                                     /\ SideSlope(r, side) = RZero
                                     /\ SideR2(r, side) = RZero
                              /\ SideSlope(r, side) = SlopeFit(r.H_raw, r.M_raw, W)
                              /\ SideR2(r, side) = R2Fit(r.H_raw, r.M_raw, W)

\* the positive window holds no sample (slope 0, error logged) while the
\* negative window holds 3 samples, fitted with the few-points warning to a
\* non-zero slope that is the one returned
C17_Witness ==
    \E r \in Analysed :
        /\ DemagManual(r) /\ DemagRangesValid(r)
        /\ ManualWindow(r, "pos") = {}
        /\ r.slope_pos = RZero
        /\ <<"slope_lt2_points", "pos">> \in r.msgs
        /\ Cardinality(ManualWindow(r, "neg")) = 3
        /\ <<"slope_few_points", "neg">> \in r.msgs
        /\ r.slope_neg # RZero
        /\ r.r2_neg # RZero
        /\ r.slope = r.slope_neg

\* x is within 5 % of the positive integer target
Near(x, target) == RLe(RAbs(RSub(x, RInt(target))), Rat(target, 20))

\* r is a pass over the loop with Mr = 10 in the given direction, without
\* slope correction and without offset correction
IdealLoopRun(r, upFirst) ==
    /\ r.data.df = load_vsm_file(LoopFile(10, upFirst)).df
    /\ ~DemagEnabled(r)
    /\ ~r.offset_correction

Recovered(r) ==
    /\ r.slope = RZero
    /\ r.file_results.Mr # NULL /\ Near(r.file_results.Mr, 10)
    /\ r.file_results.Hc_Oe # NULL /\ Near(r.file_results.Hc_Oe, 5000)
    /\ r.file_results.Ms # NULL /\ Near(r.file_results.Ms, 20)
    /\ r.file_results.squareness # NULL
    /\ RLe(RAbs(RSub(r.file_results.squareness, Rat(1, 2))), Rat(1, 40))

\* C18: the loop ramped from -2 T to 2 T and back to -2 T with Mr = 10,
\* Hc = 0.5 T and Ms = 20, analysed with slope 0 and without offset
\* correction, gives Mr, Hc (5000 Oe), Ms and squareness 0.5 back within 5 %.
C18_RoundTrip ==
    \A r \in Analysed : IdealLoopRun(r, TRUE) => Recovered(r)

\* C18 (the other direction): the same loop ramped from 2 T to -2 T and back
\* to 2 T gives the four properties back.
C18_RoundTripDownFirst ==
    \A r \in Analysed : IdealLoopRun(r, FALSE) => Recovered(r)

\* what the pass over the loop of C18 returns: the ascending half only is
\* kept, the descending branch is the first sample alone, and Mr is 15, Hc
\* 12500 Oe, Ms 20, squareness 3/4
C18_Returned ==
    \A r \in Analysed :
        IdealLoopRun(r, TRUE) =>
            /\ Len(r.H_raw) = 9
            /\ Len(r.H_down) = 1
            /\ r.file_results.Mr = RInt(15)
            /\ r.file_results.Hc_Oe = RInt(12500)
            /\ r.file_results.Ms = RInt(20)
            /\ r.file_results.squareness = Rat(3, 4)

C18_DownFirstAnalysed == \E r \in Analysed : IdealLoopRun(r, FALSE) /\ Recovered(r)

\* the first line of the file that contains both column names, among the
\* lines some encoding delivers; NoLine without one
FirstHeaderLine(file) ==
    LET readable == {i \in file.headers :
                        /\ file.openable
                        /\ i < file.n
                        /\ \E e \in {"shift-jis", "utf-8"} :
                               file.raise_at[e] = NoLine \/ i < file.raise_at[e]}
    IN  IF readable = {} THEN NoLine
        ELSE CHOOSE i \in readable : \A j \in readable : i <= j

\* C19: find_header_row returns the index of the first line with both column
\* names when that line is among the first 100 lines (index 0 to 99), and the
\* default row 40 when there is no such line among the first 100 lines or no
\* encoding opens or decodes the file.
C19_HeaderWithinHundredLines ==
    \A c \in {last_run[i] : i \in 1..Len(last_run)} :
        LET h == FirstHeaderLine(c.file)
        IN  c.header_row = IF h # NoLine /\ h < 100 THEN h ELSE 40

\* what find_header_row does: the lines of index 100 and 101 are tested too
C19_HeaderWithinHundredAndTwoLines ==
    \A c \in {last_run[i] : i \in 1..Len(last_run)} :
        LET h == FirstHeaderLine(c.file)
        IN  c.header_row = IF h # NoLine /\ h < 102 THEN h ELSE 40

\* t without its leading and trailing blanks
RECURSIVE Trim(_)
Trim(t) ==
    IF t = <<>> THEN <<>>
    ELSE IF Head(t) = " " THEN Trim(Tail(t))
    ELSE IF t[Len(t)] = " " THEN Trim(SubSeq(t, 1, Len(t) - 1))
    ELSE t

\* the line reads K=,V or K=,V,...: e is the position of its first "=", a
\* "," follows at once, and K and V are not blank
ClaimedEntries(line) ==
    {<<Trim(SubSeq(line, 1, e - 1)), Trim(SubSeq(line, e + 2, c - 1))>> :
        <<e, c>> \in {p \in (1..Len(line)) \X (1..(Len(line) + 1)) :
            /\ line[p[1]] = "=" /\ \A j \in 1..(p[1] - 1) : line[j] # "="
            /\ p[1] < Len(line) /\ line[p[1] + 1] = ","
            /\ p[2] > p[1] + 1
            /\ p[2] <= Len(line) => line[p[2]] = ","
            /\ \A j \in (p[1] + 2)..(p[2] - 1) : line[j] # ","
            /\ Trim(SubSeq(line, 1, p[1] - 1)) # <<>>
            /\ Trim(SubSeq(line, p[1] + 2, p[2] - 1)) # <<>>}}

\* line k of the file is in the scanned preamble: among the first 41 lines
\* and delivered by the decoder of an encoding
InPreamble(file, k) ==
    /\ file.openable
    /\ k <= Len(file.lines)
    /\ file.lead + k - 1 <= 40
    /\ \E e \in {"shift-jis", "utf-8"} :
           file.raise_at[e] = NoLine \/ file.lead + k - 1 < file.raise_at[e]

EntriesOfLine(file, k) ==
    IF InPreamble(file, k) THEN ClaimedEntries(file.lines[k]) ELSE {}

\* C20: the dict parse_metadata returns holds exactly the entries K -> V of
\* the lines K=,V,... of the scanned preamble with K and V not blank (the
\* later line winning for a key given twice); a line without "=" or without
\* "," right after it adds nothing and does not keep a later line from
\* adding its entry.
C20_MetadataLines ==
    \A c \in {last_run[i] : i \in 1..Len(last_run)} :
        LET later == EntriesOfLine(c.file, 2)
            earlier == {p \in EntriesOfLine(c.file, 1) :
                           \A q \in later : q[1] # p[1]}
        IN  c.metadata = earlier \cup later

\* a file whose first line has "=" but no "," after it and whose second line
\* a=,aa added its entry
C20_Witness ==
    \E i \in 1..Len(last_run) :
        /\ Len(last_run[i].file.lines) = 2
        /\ find(last_run[i].file.lines[1], "=") # 0
        /\ ClaimedEntries(last_run[i].file.lines[1]) = {}
        /\ InPreamble(last_run[i].file, 2)
        /\ last_run[i].metadata = {<<<<"a">>, <<"a", "a">>>>}

\* the attempt under encoding e ends with an exception: open() fails or the
\* decoder raises
AttemptFails(file, e) == ~file.openable \/ file.raise_at[e] # NoLine

\* the entries of the lines the decoder of e delivers, among the first 41
AttemptMapping(file, e) ==
    LET of(k) == IF /\ k <= Len(file.lines)
                    /\ file.lead + k - 1 <= 40
                    /\ file.raise_at[e] = NoLine \/ file.lead + k - 1 < file.raise_at[e]
                 THEN ClaimedEntries(file.lines[k]) ELSE {}
    IN  {p \in of(1) : \A q \in of(2) : q[1] # p[1]} \cup of(2)

\* C21: the dict returned is the one parsed under the first encoding, in the
\* order shift-jis, utf-8, whose attempt gives a non-empty dict, with the
\* entries of that attempt only; it is empty when every attempt fails to
\* open or decode.
C21_FirstSuccessWins ==
    \A c \in {last_run[i] : i \in 1..Len(last_run)} :
        LET ok(e) == ~AttemptFails(c.file, e) /\ AttemptMapping(c.file, e) # {}
        IN  c.metadata =
                IF ok("shift-jis") THEN AttemptMapping(c.file, "shift-jis")
                ELSE IF ok("utf-8") THEN AttemptMapping(c.file, "utf-8")
                ELSE {}

\* C22: load_vsm_file raises nothing and returns either a frame and no error
\* or no frame and an error message; it returns an error for a file that no
\* encoding reads and for a file without both columns, and a returned frame
\* has no missing value.
C22_LoadOutcomes ==
    \A c \in {last_run[i] : i \in 1..Len(last_run)} :
        /\ c.returned.raises = ""
        /\ IF c.returned.error_message = ""
           THEN \A i \in 1..Len(c.returned.df) :
                    c.returned.df[i].H # NULL /\ c.returned.df[i].M # NULL
           ELSE c.returned.df = None
        /\ (\A e \in {"shift-jis", "utf-8"} : c.file.read[e] # "ok")
               => c.returned.error_message # ""
        /\ ~c.file.cols => c.returned.error_message # ""

\* a file read as utf-8 after shift-jis failed to decode, returned without
\* its incomplete row
C22_Witness ==
    \E i \in 1..Len(last_run) :
        /\ last_run[i].file.read["shift-jis"] = "UnicodeDecodeError"
        /\ \E k \in 1..Len(last_run[i].file.rows) :
               last_run[i].file.rows[k][2] = NULL
        /\ last_run[i].returned.error_message = ""
        /\ Len(last_run[i].returned.df) = 2

\* a file neither encoding decodes gave an error message
C22_RejectedWitness ==
    \E i \in 1..Len(last_run) :
        /\ \A e \in {"shift-jis", "utf-8"} :
               last_run[i].file.read[e] = "UnicodeDecodeError"
        /\ last_run[i].returned.error_message = "read_failed"

\* C23: every frame load_vsm_file returned as a success, and load_files so
\* appended to vsm_data, has at least 2 rows once the incomplete rows are
\* dropped.
C23_AtLeastTwoPoints ==
    \A i \in 1..Len(vsm_data) : Len(vsm_data[i].df) >= 2

\* C24: at most one update_graph timer is pending at any time; a write that
\* schedules an update leaves exactly its own new timer pending, the timer
\* that was pending before being cancelled; and the run of a timer leaves
\* no timer pending, so that the writes of a burst cause one timer-driven
\* run of update_graph.
C24_OnePendingJob ==
    /\ [](Cardinality(after_jobs) <= 1)
    /\ [][update_job' # update_job =>
              /\ update_job' \notin after_jobs
              /\ after_jobs' = {update_job'}]_vars
    /\ [][(update_job' = update_job /\ after_jobs' # after_jobs) =>
              after_jobs' = {}]_vars

\* a timer is pending after at least two writes since the last pass: the
\* offset flag and the lower bound of the positive range both differ from
\* what the last pass read
C24_Witness ==
    /\ vsm_data # <<>> /\ Len(last_run) = 1
    /\ after_jobs = {update_job}
    /\ last_run[1].offset_correction # state.offset_correction_var
    /\ last_run[1].data.demag_vars.pos_min # vsm_data[1].demag_vars.pos_min

\* C25: whenever a timer is pending or the last pass of update_graph read
\* other values than the current ones, a state follows with no timer pending
\* in which the last pass read the current values of the files, of the
\* parameters and of the offset flag.
C25_EventuallyUpdated ==
    (after_jobs # {} \/ ~SameInputsAsLastPass)
        ~> (after_jobs = {} /\ SameInputsAsLastPass)

\* no timer is pending and the last pass read the values of a burst of
\* writes: offset correction off and the lower bound 2.5
C25_Witness ==
    /\ vsm_data # <<>> /\ Len(last_run) = 1
    /\ after_jobs = {} /\ update_job # "none"
    /\ SameInputsAsLastPass
    /\ ~last_run[1].offset_correction
    /\ last_run[1].data.demag_vars.pos_min = "2.5"

\* the pairs (file, colour) of the two lists
ColourOfFile ==
    {<<vsm_data[i].path, vsm_data[i].df, file_color_vars[i]>> :
        i \in 1..Len(vsm_data)}

\* C26: the file list and the colour list have the same length; once files
\* are loaded, a step leaves every file with the colour it had (a move
\* permutes both lists alike and keeps the set of files); move_file_up(0)
\* and move_file_down(last) change neither list.
C26_ListsAligned ==
    /\ [](Len(vsm_data) = Len(file_color_vars))
    /\ [](vsm_data # <<>> =>
             /\ ~move_file_up(vsm_data, file_color_vars, 0).moved
             /\ move_file_up(vsm_data, file_color_vars, 0).vsm_data = vsm_data
             /\ move_file_up(vsm_data, file_color_vars, 0).file_color_vars
                    = file_color_vars
             /\ LET last == Len(vsm_data) - 1
                IN  /\ ~move_file_down(vsm_data, file_color_vars, last).moved
                    /\ move_file_down(vsm_data, file_color_vars, last).vsm_data
                           = vsm_data
                    /\ move_file_down(vsm_data, file_color_vars, last).file_color_vars
                           = file_color_vars)
    /\ [][vsm_data # <<>> =>
              /\ Len(vsm_data') = Len(vsm_data)
              /\ Cardinality(ColourOfFile) = Len(vsm_data)
              /\ ColourOfFile' = ColourOfFile]_vars

\* three files, the second of the dialog rejected on load, with the file
\* loaded last moved to the top: it has the fourth colour still
C26_Witness ==
    /\ Len(vsm_data) = 3
    /\ vsm_data[1].path = "d.VSM" /\ file_color_vars[1] = base_colors[4]
    /\ vsm_data[2].path = "a.VSM" /\ file_color_vars[2] = base_colors[1]
    /\ vsm_data[3].path = "c.VSM" /\ file_color_vars[3] = base_colors[3]

\* C27: with two or more files loaded, apply_first_file_settings_to_all
\* leaves every file with saved demag settings equal to those of the first
\* file, whatever the traces of the seven writes saved in between.
C27_AllEqualFirst ==
    Len(vsm_data) >= 2 =>
        \A i \in 1..Len(vsm_data) :
            apply_first_file_settings_to_all(vsm_data).vsm_data[i].demag_settings
                = vsm_data[1].demag_settings

\* the settings were applied while no timer was pending: the second file
\* has the settings of the first, linked and with a negative range that is
\* not the mirror of the positive one, where the last pass saw it unlinked
\* and with another upper negative bound
C27_Witness ==
    /\ Len(vsm_data) = 2 /\ Len(last_run) = 2
    /\ after_jobs # {}
    /\ vsm_data[2].demag_settings = vsm_data[1].demag_settings
    /\ vsm_data[1].demag_settings.link_ranges
    /\ vsm_data[1].demag_settings.neg_range[2] = "-1.5"
    /\ ~last_run[2].data.demag_settings.link_ranges
    /\ last_run[2].data.demag_settings.neg_range[2] # "-1.5"

\* the four entries of the panel parse as numbers
EntriesParse(v) ==
    /\ FloatOK(v.pos_min) /\ FloatOK(v.pos_max)
    /\ FloatOK(v.neg_min) /\ FloatOK(v.neg_max)

\* a step in which a variable of the demag panel of file i gets a new value
DemagVarChanges(i) ==
    /\ i <= Len(vsm_data) /\ Len(vsm_data') = Len(vsm_data)
    /\ vsm_data'[i].demag_vars # vsm_data[i].demag_vars

\* C28: when a variable of the demag panel of a file changes and one of the
\* four entries does not parse, the saved settings of the file stay as they
\* were and no update is scheduled; when the four parse, the saved settings
\* are the values of the seven variables and one update is pending.
C28_SaveOnlyWhenAllParse ==
    [][\A i \in 1..Len(vsm_data) : DemagVarChanges(i) =>
          IF EntriesParse(vsm_data'[i].demag_vars)
          THEN /\ vsm_data'[i].demag_settings =
                      [enabled |-> vsm_data'[i].demag_vars.enabled,
                       manual |-> vsm_data'[i].demag_vars.manual,
                       link_ranges |-> vsm_data'[i].demag_vars.link,
                       pos_range |-> <<vsm_data'[i].demag_vars.pos_min,
                                       vsm_data'[i].demag_vars.pos_max>>,
                       neg_range |-> <<vsm_data'[i].demag_vars.neg_min,
                                       vsm_data'[i].demag_vars.neg_max>>]
               /\ update_job' # update_job
               /\ after_jobs' = {update_job'}
          ELSE /\ vsm_data'[i].demag_settings = vsm_data[i].demag_settings
               /\ after_jobs' = after_jobs
               /\ update_job' = update_job]_vars

\* a check box was changed while the lower bound was no number: the box
\* differs from the saved flag and no timer is pending
C28_Witness ==
    /\ Len(vsm_data) = 1
    /\ vsm_data[1].demag_vars.pos_min = "abc"
    /\ vsm_data[1].demag_vars.enabled # vsm_data[1].demag_settings.enabled
    /\ after_jobs = {}

\* the text of -v for the texts the user types into the positive range
MirrorText ==
    [t \in {"0.5", "2.5", "3", "1.2", "3.5"} |->
        CASE t = "0.5" -> "-0.5" [] t = "2.5" -> "-2.5" [] t = "3" -> "-3.0"
          [] t = "1.2" -> "-1.2" [] t = "3.5" -> "-3.5"]

\* what a write to the bound pos of the positive range does to the bound
\* neg of the negative range, to the other negative bound and, when saves
\* holds, to the saved pair
Mirrored(v, w, saved, pos, neg, other, saves) ==
    w[pos] # v[pos] =>
        IF v.link /\ FloatOK(w[pos])
        THEN /\ w[neg] = MirrorText[w[pos]]
             /\ w[other] = v[other]
             /\ saves => /\ w[pos] \in {saved.pos_range[1], saved.pos_range[2]}
                         /\ w[neg] \in {saved.neg_range[1], saved.neg_range[2]}
        ELSE w[neg] = v[neg] /\ w[other] = v[other]

\* C29: with the link box ticked, a write to pos_min (pos_max) of text that
\* parses as v sets neg_max (neg_min) to the text of -v, and the saved
\* settings hold the mirrored pair; with the box not ticked, or text that
\* does not parse, the negative bounds stay as they were.
C29_MirroredAndSaved ==
    [][\A i \in 1..Len(vsm_data) : DemagVarChanges(i) =>
          /\ Mirrored(vsm_data[i].demag_vars, vsm_data'[i].demag_vars,
                      vsm_data'[i].demag_settings,
                      "pos_min", "neg_max", "neg_min", TRUE)
          /\ Mirrored(vsm_data[i].demag_vars, vsm_data'[i].demag_vars,
                      vsm_data'[i].demag_settings,
                      "pos_max", "neg_min", "neg_max", TRUE)]_vars

\* C29, amended: with the link box ticked, a write to pos_min (pos_max) of
\* text that parses as v sets neg_max (neg_min) to the text of -v, and when
\* the four entries then parse the saved settings hold the mirrored pair;
\* with the box not ticked, or text that does not parse, the negative bounds
\* stay as they were.
C29_MirroredAndSavedWhenAllParse ==
    [][\A i \in 1..Len(vsm_data) : DemagVarChanges(i) =>
          /\ Mirrored(vsm_data[i].demag_vars, vsm_data'[i].demag_vars,
                      vsm_data'[i].demag_settings,
                      "pos_min", "neg_max", "neg_min",
                      EntriesParse(vsm_data'[i].demag_vars))
          /\ Mirrored(vsm_data[i].demag_vars, vsm_data'[i].demag_vars,
                      vsm_data'[i].demag_settings,
                      "pos_max", "neg_min", "neg_max",
                      EntriesParse(vsm_data'[i].demag_vars))]_vars

\* the lower bound 3 was typed with the link box ticked: the upper negative
\* bound reads -3.0 and the pair is saved
C29_Witness ==
    /\ Len(vsm_data) = 1
    /\ vsm_data[1].demag_vars.link
    /\ vsm_data[1].demag_vars.pos_min = "3"
    /\ vsm_data[1].demag_vars.neg_max = "-3.0"
    /\ vsm_data[1].demag_settings.pos_range[1] = "3"
    /\ vsm_data[1].demag_settings.neg_range[2] = "-3.0"

\* C30: with offset correction on and a sweep whose field goes above and
\* below 0, the offset is the average of the means of the slope-corrected
\* moment over the samples with field above 0.9 * max and below 0.9 * min,
\* and the means of the final moment over the same two sets add up to 0.
C30_OffsetCentresLoop ==
    \A r \in Analysed :
        (/\ r.offset_correction
         /\ \E i \in 1..Len(r.H_raw) : RGt(r.H_raw[i], RZero)
         /\ \E i \in 1..Len(r.H_raw) : RLt(r.H_raw[i], RZero)) =>
            /\ r.offset = OffsetAfterSlope(r)
            /\ RAdd(MeanOver(r.M_final, Above90(r.H_raw)),
                    MeanOver(r.M_final, Below90(r.H_raw))) = RZero

\* a sweep with a slope and an offset that are not 0, whose final moment
\* has the mean 2 above 0.9 * max and -2 below 0.9 * min
C30_Witness ==
    \E r \in Analysed :
        /\ r.offset_correction
        /\ r.slope # RZero
        /\ r.offset # RZero
        /\ \E i \in 1..Len(r.H_raw) : RLt(r.H_raw[i], RZero)
        /\ MeanOver(r.M_final, Above90(r.H_raw)) # RZero
        /\ MeanOver(r.M_final, Above90(r.H_raw))
               = RNeg(MeanOver(r.M_final, Below90(r.H_raw)))

====
